---------------------------- MODULE Spec2Model ----------------------------
(***************************************************************************)
(* A model of package toolkit.                                              *)
(*                                                                         *)
(* The upload pipeline (src/upload_tools.go, src/tools.go):                *)
(* Tools.UploadFiles and Tools.UploadOneFile, run by one or two request    *)
(* handlers that share one Tools value and one file system.                *)
(*                                                                         *)
(* The helpers Tools.RandomString, Tools.CreateNewDirectory and            *)
(* Tools.Slugify (src/tools.go), Tools.ReadJSON, Tools.WriteJSON and       *)
(* Tools.ErrorJSON (src/json.go), each under a specification of its own.   *)
(*                                                                         *)
(* Strings and file contents are sequences of byte values (ASCII codes);   *)
(* the string a sequence stands for is given in the comment beside it.     *)
(***************************************************************************)
EXTENDS Integers, Sequences, FiniteSets, TLC

VARIABLES
    t,              \* the shared Tools value (tools.go:23-28)
    disk,           \* the file system: cleaned path -> content of the file
    dirs,           \* the directories that exist (cleaned paths)
    pc,             \* per handler: where the handler is in UploadFiles / UploadOneFile
    call,           \* per handler: the arguments of the running call
    order,          \* per handler: the visits <<field, i>> of the range loops, in their order
    uploadedFiles,  \* per handler: the local slice uploadedFiles of UploadFiles
    err,            \* per handler: the local err of UploadFiles
    log,            \* per handler: one entry per file part the loop body has run on
    openFiles,      \* the file handles that are open: <<handler, part number, kind>>
    ret,            \* per handler: what UploadOneFile returned
    rnd,            \* the call of RandomString: its argument, its draws and its result
    rj,             \* the call of ReadJSON: the request body, the target and the result
    wj,             \* the call of WriteJSON or ErrorJSON: its arguments, its position and the response
    sl,             \* the call of Slugify: its argument and its results
    cd              \* the calls of CreateNewDirectory: the path and what they returned

\* The variables of the helpers, which the upload pipeline leaves alone.
helperVars == <<rnd, rj, wj, sl, cd>>

\* The variables of the upload pipeline, which the helpers leave alone.
uploadVars == <<disk, dirs, pc, call, order, uploadedFiles, err, log, openFiles, ret>>

vars == <<t, uploadVars, helperVars>>

-----------------------------------------------------------------------------
(* Bounds of the model.                                                    *)

\* The largest number of file parts in one request.
MaxParts == 2

\* The handlers that may serve requests at the same time on one Tools value.
Handlers == {1, 2}

\* The largest argument of RandomString called on its own.
MaxRandomLen == 2

-----------------------------------------------------------------------------
(* Program constants.                                                      *)

\* t.RandomString(25)
RandomNameLen == 25

\* t.MaxFileSize = 1024 * 1024 * 1024
DefaultMaxFileSize == 1024 * 1024 * 1024

\* net/http's reserve for the non-file parts of a form: maxMemory + 10 MB.
ValueReserve == 10 * 1024 * 1024

\* "abcdefghijklmnopqrstuvwxyzABCDEFGHIJKLMNOPQRSTUVWXYZ0123456789!=+"
randomStrSource ==
    <<97, 98, 99, 100, 101, 102, 103, 104, 105, 106, 107, 108, 109, 110, 111,
      112, 113, 114, 115, 116, 117, 118, 119, 120, 121, 122, 65, 66, 67, 68,
      69, 70, 71, 72, 73, 74, 75, 76, 77, 78, 79, 80, 81, 82, 83, 84, 85, 86,
      87, 88, 89, 90, 48, 49, 50, 51, 52, 53, 54, 55, 56, 57, 33, 61, 43>>

\* The error values of UploadFiles. NoError is Go's nil error.
NoError == "nil"
ErrTooBig == "the uploaded file is too big"
ErrNotPermitted == "the uploaded file type is not permitted"
ErrEOF == "EOF"
ErrOpen == "open: i/o error"
ErrRead == "read: i/o error"
ErrSeek == "seek: i/o error"
ErrCreate == "create: i/o error"
ErrCopy == "copy: i/o error"

-----------------------------------------------------------------------------
(* Byte strings.                                                           *)

Dot == 46     \* '.'
Slash == 47   \* '/'

Min(a, b) == IF a <= b THEN a ELSE b

\* The sequence of n bytes b.
RECURSIVE Repeat(_, _)
Repeat(b, n) ==
    IF n <= 0 THEN <<>>
    ELSE IF n = 1 THEN <<b>>
    ELSE LET half == Repeat(b, n \div 2)
         IN  half \o half \o (IF n % 2 = 1 THEN <<b>> ELSE <<>>)

\* s[from..] as Go's s[from-1:], empty when from is past the end.
Suffix(s, from) == SubSeq(s, from, Len(s))

\* unicode.SimpleFold restricted to ASCII: an upper-case letter folds to its
\* lower-case letter, every other byte to itself.
FoldByte(b) == IF 65 <= b /\ b <= 90 THEN b + 32 ELSE b

\* strings.EqualFold(s, u): equal under simple case folding.
EqualFold(s, u) ==
    /\ Len(s) = Len(u)
    /\ \A i \in 1..Len(s) : FoldByte(s[i]) = FoldByte(u[i])

-----------------------------------------------------------------------------
(* path/filepath.                                                          *)

\* filepath.Ext(path): the suffix beginning at the final dot in the final
\* element of path; empty if there is no dot. The loop runs from the last
\* byte down to the first and stops at a separator.
RECURSIVE ExtFrom(_, _)
ExtFrom(path, i) ==
    IF i < 1 \/ path[i] = Slash THEN <<>>
    ELSE IF path[i] = Dot THEN Suffix(path, i)
    ELSE ExtFrom(path, i - 1)

Ext(path) == ExtFrom(path, Len(path))

\* strings.Split(path, "/"): the elements between separators.
RECURSIVE SplitFrom(_, _, _)
SplitFrom(path, i, cur) ==
    IF i > Len(path) THEN <<cur>>
    ELSE IF path[i] = Slash THEN <<cur>> \o SplitFrom(path, i + 1, <<>>)
    ELSE SplitFrom(path, i + 1, Append(cur, path[i]))

\* filepath.Clean's treatment of the elements of a path: empty and "."
\* elements are dropped; ".." removes the element before it, is dropped at
\* the root and is kept at the start of a relative path.
RECURSIVE CleanElems(_, _, _)
CleanElems(elems, rooted, stack) ==
    IF elems = <<>> THEN stack
    ELSE LET e == Head(elems)
             rest == Tail(elems)
         IN  IF e = <<>> \/ e = <<Dot>> THEN CleanElems(rest, rooted, stack)
             ELSE IF e = <<Dot, Dot>> THEN
                 IF stack # <<>> /\ stack[Len(stack)] # <<Dot, Dot>>
                 THEN CleanElems(rest, rooted, SubSeq(stack, 1, Len(stack) - 1))
                 ELSE IF rooted THEN CleanElems(rest, rooted, stack)
                 ELSE CleanElems(rest, rooted, Append(stack, e))
             ELSE CleanElems(rest, rooted, Append(stack, e))

RECURSIVE JoinElems(_)
JoinElems(elems) ==
    IF elems = <<>> THEN <<>>
    ELSE IF Len(elems) = 1 THEN elems[1]
    ELSE elems[1] \o <<Slash>> \o JoinElems(Tail(elems))

\* filepath.Clean(path): the shortest equivalent path, "." for the empty one.
Clean(path) ==
    LET rooted == path # <<>> /\ path[1] = Slash
        body == JoinElems(CleanElems(SplitFrom(path, 1, <<>>), rooted, <<>>))
    IN  IF rooted THEN <<Slash>> \o body
        ELSE IF body = <<>> THEN <<Dot>>
        ELSE body

\* filepath.Join(dir, name): the non-empty elements joined by a separator,
\* then cleaned; empty if both are empty.
Join(dir, name) ==
    IF dir = <<>> /\ name = <<>> THEN <<>>
    ELSE IF dir = <<>> THEN Clean(name)
    ELSE IF name = <<>> THEN Clean(dir)
    ELSE Clean(dir \o <<Slash>> \o name)

\* The index of the last separator of path, 0 if it has none.
RECURSIVE LastSlash(_, _)
LastSlash(path, i) ==
    IF i < 1 THEN 0
    ELSE IF path[i] = Slash THEN i
    ELSE LastSlash(path, i - 1)

\* filepath.Dir(path): all but the last element of path, cleaned. os.Create
\* needs this directory to exist.
Dir(path) == Clean(SubSeq(path, 1, LastSlash(path, Len(path))))

-----------------------------------------------------------------------------
(* net/http content sniffing, as called at upload_tools.go:89.  The        *)
(* signatures are those of net/http's table that the file contents of this *)
(* model can match, in the table's order; no other signature of the table  *)
(* matches any of them.                                                    *)

\* sniffLen of net/http: DetectContentType considers at most 512 bytes.
sniffLen == 512

CtPdf == <<97, 112, 112, 108, 105, 99, 97, 116, 105, 111, 110, 47, 112, 100, 102>>  \* "application/pdf"
CtPng == <<105, 109, 97, 103, 101, 47, 112, 110, 103>>                              \* "image/png"
CtJpeg == <<105, 109, 97, 103, 101, 47, 106, 112, 101, 103>>                        \* "image/jpeg"
CtText ==                                                                          \* "text/plain; charset=utf-8"
    <<116, 101, 120, 116, 47, 112, 108, 97, 105, 110, 59, 32, 99, 104, 97,
      114, 115, 101, 116, 61, 117, 116, 102, 45, 56>>
CtOctet ==                                                                         \* "application/octet-stream"
    <<97, 112, 112, 108, 105, 99, 97, 116, 105, 111, 110, 47, 111, 99, 116,
      101, 116, 45, 115, 116, 114, 101, 97, 109>>

SigPdf == <<37, 80, 68, 70, 45>>                  \* "%PDF-"
SigPng == <<137, 80, 78, 71, 13, 10, 26, 10>>     \* "\x89PNG\x0D\x0A\x1A\x0A"
SigJpeg == <<255, 216, 255>>                      \* "\xFF\xD8\xFF"

\* isWS: tab, line feed, form feed, carriage return, space.
IsWS(b) == b \in {9, 10, 12, 13, 32}

\* The binary data bytes of the text signature: 0x00-0x08, 0x0B, 0x0E-0x1A
\* and 0x1C-0x1F.
BinaryBytes == (0..8) \cup {11} \cup (14..26) \cup (28..31)

\* firstNonWS: the position of the first of the first n bytes of data that
\* is not white space (n + 1 if there is none).
RECURSIVE FirstNonWS(_, _, _)
FirstNonWS(data, n, i) ==
    IF i > n \/ ~IsWS(data[i]) THEN i ELSE FirstNonWS(data, n, i + 1)

\* exactSig.match on the first n bytes of data: bytes.HasPrefix(data[:n], sig).
HasPrefix(data, n, sig) ==
    n >= Len(sig) /\ \A i \in 1..Len(sig) : data[i] = sig[i]

\* textSig.match on the first n bytes of data: no binary data byte from the
\* first non-white-space byte on.
IsText(data, n) ==
    \A i \in FirstNonWS(data, n, 1)..n : data[i] \notin BinaryBytes

\* http.DetectContentType(data): data is cut to its first sniffLen bytes, the
\* signatures are tried in order and the fallback is application/octet-stream.
DetectContentType(data) ==
    LET n == Min(Len(data), sniffLen)
    IN  IF HasPrefix(data, n, SigPdf) THEN CtPdf
        ELSE IF HasPrefix(data, n, SigPng) THEN CtPng
        ELSE IF HasPrefix(data, n, SigJpeg) THEN CtJpeg
        ELSE IF IsText(data, n) THEN CtText
        ELSE CtOctet

-----------------------------------------------------------------------------
(* The steps of the function literal that UploadFiles runs on every file   *)
(* header (upload_tools.go:69-149).                                        *)

\* buff := make([]byte, 512)
BuffLen == 512

\* The nil *os.File.
NilFile == "nil"

\* infile.Read(buff) at offset off of a stream holding content: it copies
\* min(len(buff), remaining) bytes to the front of buff, whose other bytes
\* keep the zero that make gave them, and reports io.EOF when nothing
\* remains.
Read(content, off, len) ==
    LET n == Min(len, Len(content) - off)
    IN  [n |-> n,
         err |-> IF n = 0 THEN ErrEOF ELSE NoError,
         buff |-> SubSeq(content, off + 1, off + n) \o Repeat(0, len - n)]

\* A variant of lines 88-109 that lets every file type through.
IsAllowed_Always(fileType, allowList) == TRUE

\* Lines 88-104: allowed starts false; with a non-empty AllowedFileTypes it
\* becomes true when some entry equals fileType under EqualFold, with an
\* empty one it becomes true.
IsAllowed_Exact(fileType, allowList) ==
    IF Len(allowList) > 0
    THEN \E i \in 1..Len(allowList) : fileType = allowList[i]
    ELSE TRUE

IsAllowed(fileType, allowList) ==
    IF Len(allowList) > 0
    THEN \E i \in 1..Len(allowList) : EqualFold(fileType, allowList[i])
    ELSE TRUE

\* infile.Seek(0, 0): the offset of the stream afterwards.
SeekStart_Stay(off) == off

SeekStart(off) == 0

\* p.Uint64() is 64 bits wide.
Uint64Bits == 64

\* rand.Prime(rand.Reader, len(r)): the bit length of the prime drawn.
PrimeBits == Len(randomStrSource)

RECURSIVE GCD(_, _)
GCD(a, b) == IF b = 0 THEN a ELSE GCD(b, a % b)

\* 2^e modulo y, by repeated squaring.
RECURSIVE Pow2Mod(_, _)
Pow2Mod(e, y) ==
    IF e = 0 THEN 1 % y
    ELSE IF e % 2 = 1 THEN (2 * Pow2Mod(e - 1, y)) % y
    ELSE LET h == Pow2Mod(e \div 2, y) IN (h * h) % y

\* rand.Prime(rand.Reader, bits) gives a prime p of exactly bits bits. The
\* model keeps a draw as the residue of p modulo y = len(r), which is all
\* that x % y depends on: p is a prime larger than y, so p and y have no
\* common factor, and every such residue is the residue of some prime of
\* that length.
PrimeResidues(y) == {c \in 0..(y - 1) : GCD(c, y) = 1}

\* x % y for x = p.Uint64(), the low 64 bits of p, given c = p % y: with at
\* most 64 bits x = p, and with 65 bits the top bit is set and x = p - 2^64.
Uint64Mod(c, bits, y) ==
    IF bits <= Uint64Bits THEN c % y
    ELSE (c + y - Pow2Mod(Uint64Bits, y)) % y

\* A variant of RandomString that allocates one rune more than asked for.
RandomString_OneMore(n, draws) ==
    [i \in 1..(n + 1) |->
        IF i <= n
        THEN randomStrSource[Uint64Mod(draws[i], PrimeBits, Len(randomStrSource)) + 1]
        ELSE 0]

\* Tools.RandomString(n) (tools.go:33-52): character i is r[x % y], x the
\* low 64 bits of the i-th prime drawn and y the alphabet's length.
RandomString(n, draws) ==
    [i \in 1..n |->
        randomStrSource[Uint64Mod(draws[i], PrimeBits, Len(randomStrSource)) + 1]]

\* Lines 119-123: the random name keeps the extension of the submitted name.
NewFileName(renameFile, filename, draws) ==
    IF renameFile
    THEN RandomString(RandomNameLen, draws) \o Ext(filename)
    ELSE filename

\* Lines 128-129: "var outfile *os.File; defer outfile.Close()". The
\* receiver of a deferred method call is evaluated when the defer statement
\* runs, and outfile is nil then: the deferred call is (*os.File)(nil).Close().
DeferredOutfile == NilFile

\* io.Copy(outfile, infile): the bytes from the stream's offset to its end.
Copy(content, off) == Suffix(content, off + 1)

\* "return nil, err": the slice the function literal returns beside an error.
FailedFiles(files) == <<>>

\* The function literal's exit: the deferred calls run, closing the handles
\* they were given; what it opened and did not close stays open.
ClosureExit(files, error, dsk, opened, deferred, entry) ==
    [files |-> files,
     err |-> error,
     disk |-> dsk,
     leaked |-> opened \ {deferred[i] : i \in 1..Len(deferred)},
     entry |-> entry]

\* What the loop body leaves in log for one file part: the fault the
\* environment injected, the bytes the sniffing read returned (-1 if it was
\* not reached), the sniffed type (empty if not reached), the path created
\* (empty if none was), the FileSize recorded (-1 if none was) and the error
\* the function literal returned.
Entry(fault, n, fileType, path, size, error) ==
    [fault |-> fault, n |-> n, fileType |-> fileType, path |-> path,
     size |-> size, err |-> error]

\* The function literal of upload_tools.go:69-149 on header hdr. env is what
\* the environment decides: which I/O call fails (fault), the random draws of
\* RandomString (draws) and how many bytes a failing copy wrote (cut). rd is
\* what infile.Read(buff) of line 81 gives when it is reached and the
\* environment does not make it fail, fileType what DetectContentType(buff)
\* of line 89 gives for it; neither depends on env.
Closure(hdr, rd, fileType, env, allowList, renameFile, uploadDir, files, dsk, drs) ==
    IF env.fault = "open"
    THEN ClosureExit(FailedFiles(files), ErrOpen, dsk, {}, <<>>,
                     Entry(env.fault, -1, <<>>, <<>>, -1, ErrOpen))
    ELSE
    LET readErr == IF env.fault = "read" THEN ErrRead ELSE rd.err
        n == IF env.fault = "read" THEN -1 ELSE rd.n
    IN
    IF readErr # NoError
    THEN ClosureExit(FailedFiles(files), readErr, dsk, {"infile"}, <<"infile">>,
                     Entry(env.fault, n, <<>>, <<>>, -1, readErr))
    ELSE
    IF ~IsAllowed(fileType, allowList)
    THEN ClosureExit(FailedFiles(files), ErrNotPermitted, dsk, {"infile"}, <<"infile">>,
                     Entry(env.fault, n, fileType, <<>>, -1, ErrNotPermitted))
    ELSE IF env.fault = "seek"
    THEN ClosureExit(FailedFiles(files), ErrSeek, dsk, {"infile"}, <<"infile">>,
                     Entry(env.fault, n, fileType, <<>>, -1, ErrSeek))
    ELSE
    LET off == SeekStart(rd.n)
        name == NewFileName(renameFile, hdr.Filename, env.draws)
        path == Join(uploadDir, name)
        deferred == <<"infile", DeferredOutfile>>
    IN
    IF env.fault = "create" \/ Dir(path) \notin drs
    THEN ClosureExit(FailedFiles(files), ErrCreate, dsk, {"infile"}, deferred,
                     Entry(env.fault, n, fileType, <<>>, -1, ErrCreate))
    ELSE
    LET data == Copy(hdr.content, off) IN
    IF env.fault = "copy"
    THEN ClosureExit(FailedFiles(files), ErrCopy,
                     (path :> SubSeq(data, 1, Min(env.cut, Len(data)))) @@ dsk,
                     {"infile", "outfile"}, deferred,
                     Entry(env.fault, n, fileType, path, -1, ErrCopy))
    ELSE
    LET uploadedFile == [NewFileName |-> name,
                         OriginalFileName |-> hdr.Filename,
                         FileSize |-> Len(data)]
    IN  ClosureExit(Append(files, uploadedFile), NoError, (path :> data) @@ dsk,
                    {"infile", "outfile"}, deferred,
                    Entry(env.fault, n, fileType, path, Len(data), NoError))

\* Lines 152-154: "if err != nil { return uploadedFiles, err }".
StopOnError_Never(error) == FALSE

StopOnError(error) == error # NoError

\* Lines 43-48 (and 25-28): rename by default, else the first argument.
RenameFile_DefaultFalse(rename) == IF Len(rename) > 0 THEN rename[1] ELSE FALSE

RenameFile(rename) == IF Len(rename) > 0 THEN rename[1] ELSE TRUE

-----------------------------------------------------------------------------
(* Requests.                                                               *)

\* A file header of a parsed form: the submitted file name and the content.
PngPart == [Filename |-> <<97, 46, 98, 46, 112, 110, 103>>,   \* "a.b.png"
            content |-> SigPng]
TxtPart == [Filename |-> <<110>>,                             \* "n"
            content |-> <<104, 105>>]                         \* "hi"
LongPart == [Filename |-> <<110>>,                            \* "n"
             content |-> Append(Repeat(97, BuffLen), 0)]           \* 512 times 'a', then NUL
EmptyPart == [Filename |-> <<46, 101>>,                       \* ".e"
              content |-> <<>>]

PartSet == {PngPart, TxtPart, LongPart, EmptyPart}

\* The form field names under which files are submitted.
Fields == {"file", "doc"}

RECURSIVE TotalParts(_, _)
TotalParts(File, D) ==
    IF D = {} THEN 0
    ELSE LET f == CHOOSE x \in D : TRUE
         IN  Len(File[f]) + TotalParts(File, D \ {f})

PartSeqs(parts) == UNION {[1..m -> parts] : m \in 1..MaxParts}

\* r.MultipartForm.File of a parsed request: field name -> headers, every
\* field present having at least one header.
Forms(parts) ==
    {File \in UNION {[D -> PartSeqs(parts)] : D \in SUBSET Fields} :
        TotalParts(File, DOMAIN File) <= MaxParts}

EmptyForm == [f \in {} |-> <<>>]

\* More bytes of non-file form values than any limit of the model allows.
HugeValues == DefaultMaxFileSize + ValueReserve + 1

\* A request: whether the body is well-formed multipart data, the bytes of
\* its non-file values and its file parts.
Requests(parts) ==
    {[wellFormed |-> TRUE, valueBytes |-> 0, File |-> File] : File \in Forms(parts)}
    \cup {[wellFormed |-> FALSE, valueBytes |-> 0, File |-> EmptyForm],
          [wellFormed |-> TRUE, valueBytes |-> HugeValues,
           File |-> [f \in {"file"} |-> <<PngPart>>]]}

\* r.ParseMultipartForm(maxMemory) of net/http: file parts beyond maxMemory
\* are moved to temporary files on disk, not refused; the call fails on a
\* body that is not well-formed multipart data and on non-file values beyond
\* maxMemory plus 10 MB.
ParseMultipartForm(r, maxMemory) ==
    IF r.wellFormed /\ r.valueBytes <= maxMemory + ValueReserve
    THEN NoError
    ELSE "multipart: message too large"

\* The orders in which "for _, headers := range r.MultipartForm.File" with
\* the inner "for _, hdr := range headers" can visit the headers: the fields
\* in any order, the headers of a field in their order.
\* A visit is <<field, i>>: the i-th header of the field.
RECURSIVE Flatten(_, _)
Flatten(File, fieldOrder) ==
    IF fieldOrder = <<>> THEN <<>>
    ELSE [i \in 1..Len(File[Head(fieldOrder)]) |-> <<Head(fieldOrder), i>>]
         \o Flatten(File, Tail(fieldOrder))

RangeOrders(File) ==
    LET D == DOMAIN File
        perms == {p \in [1..Cardinality(D) -> D] :
                     \A i, j \in 1..Cardinality(D) : i # j => p[i] # p[j]}
    IN  {Flatten(File, p) : p \in perms}

-----------------------------------------------------------------------------
(* The inputs the model enumerates.                                        *)

\* A configured MaxFileSize smaller than some of the files.
SmallMaxFileSize == 2

\* AllowedFileTypes: none, or "IMAGE/PNG" and "text/plain; charset=utf-8".
AllowLists ==
    {<<>>,
     << <<73, 77, 65, 71, 69, 47, 80, 78, 71>>, CtText >>}

Configs ==
    {[MaxFileSize |-> m, AllowedFileTypes |-> a,
      MaxJSONSize |-> 0, AllowUnknownFields |-> FALSE] :
        m \in {0, SmallMaxFileSize}, a \in AllowLists}

UploadDir == <<46, 47, 117, 112, 47>>     \* "./up/"

Ops == {"UploadFiles", "UploadOneFile"}

\* The variadic rename argument: omitted, true or false.
RenameArgs == {<<>>, <<TRUE>>, <<FALSE>>}

\* The I/O call of the loop body that the environment makes fail, if any.
Faults == {"none", "open", "read", "seek", "create", "copy"}

\* The draws of one RandomString(25) call (the p of tools.go:41): the same
\* prime 25 times, or primes of different residues.
SameDraws == [i \in 1..RandomNameLen |-> 1]
Draws ==
    {SameDraws,
     [i \in 1..RandomNameLen |-> IF GCD(i, Len(randomStrSource)) = 1 THEN i ELSE 1]}

\* The bytes a failing io.Copy wrote before it failed.
Cuts == {0, 1}

\* What the environment decides for one file part. The draws matter only
\* when the file is renamed and the cut only when the copy fails.
Envs(renameFile) ==
    {e \in [fault : Faults, draws : Draws, cut : Cuts] :
        /\ e.fault # "copy" => e.cut = 0
        /\ ~renameFile => e.draws = SameDraws}

\* Whether one handler runs alone. With two handlers on one Tools value the
\* requests are the small ones.
Solo == \E h \in Handlers : pc[h] = "off"

CallRenames == IF Solo THEN RenameArgs ELSE {<<>>}
CallRequests ==
    IF Solo THEN Requests(PartSet)
    ELSE {r \in Requests({PngPart}) : TotalParts(r.File, DOMAIN r.File) <= 1}

NoCall == [op |-> "none"]

\* hdr of the k-th iteration of handler h's loops.
Header(h, k) == call[h].r.File[order[h][k][1]][order[h][k][2]]
NoRet == [kind |-> "none"]

\* A helper that is not called in the specification at hand.
NoHelper == [pc |-> "off"]

-----------------------------------------------------------------------------
(* The state machine.                                                      *)

\* No file written and no upload call made.
InitFiles ==
    /\ disk = [p \in {} |-> <<>>]
    /\ dirs = {Clean(UploadDir)}
    /\ call = [h \in Handlers |-> NoCall]
    /\ order = [h \in Handlers |-> <<>>]
    /\ uploadedFiles = [h \in Handlers |-> <<>>]
    /\ err = [h \in Handlers |-> NoError]
    /\ log = [h \in Handlers |-> <<>>]
    /\ openFiles = {}
    /\ ret = [h \in Handlers |-> NoRet]

InitCommon ==
    /\ t \in Configs
    /\ InitFiles
    /\ rnd = NoHelper
    /\ rj = NoHelper
    /\ wj = NoHelper
    /\ sl = NoHelper
    /\ cd = NoHelper

\* One handler.
Init ==
    /\ InitCommon
    /\ pc = [h \in Handlers |-> IF h = 1 THEN "idle" ELSE "off"]

\* Two handlers sharing t and the file system.
InitShared ==
    /\ InitCommon
    /\ pc = [h \in Handlers |-> "idle"]

\* A handler calls UploadFiles or UploadOneFile (lines 24-30, 41-51):
\* renameFile is computed and uploadedFiles starts nil. UploadOneFile passes
\* its renameFile on as the rename argument of UploadFiles.
Call(h) ==
    /\ pc[h] = "idle"
    /\ \E op \in Ops, r \in CallRequests, rename \in CallRenames :
         call' = [call EXCEPT ![h] =
                    [op |-> op, r |-> r, uploadDir |-> UploadDir, rename |-> rename,
                     renameFile |-> IF op = "UploadOneFile"
                                    THEN RenameFile(<<RenameFile(rename)>>)
                                    ELSE RenameFile(rename)]]
    /\ pc' = [pc EXCEPT ![h] = "check"]
    /\ uploadedFiles' = [uploadedFiles EXCEPT ![h] = <<>>]
    /\ err' = [err EXCEPT ![h] = NoError]
    /\ UNCHANGED <<helperVars, t, disk, dirs, order, log, openFiles, ret>>

\* Line 54: "if t.MaxFileSize == 0", a read of the shared t.
CheckMaxFileSize(h) ==
    /\ pc[h] = "check"
    /\ pc' = [pc EXCEPT ![h] = IF t.MaxFileSize = 0 THEN "default" ELSE "parse"]
    /\ UNCHANGED <<helperVars, t, disk, dirs, call, order, uploadedFiles, err, log, openFiles, ret>>

\* Line 56: "t.MaxFileSize = 1024 * 1024 * 1024", a write of the shared t.
SetDefaultMaxFileSize(h) ==
    /\ pc[h] = "default"
    /\ t' = [t EXCEPT !.MaxFileSize = DefaultMaxFileSize]
    /\ pc' = [pc EXCEPT ![h] = "parse"]
    /\ UNCHANGED <<helperVars, disk, dirs, call, order, uploadedFiles, err, log, openFiles, ret>>

\* Lines 60-63: parsing fails and UploadFiles returns nil and "too big".
ParseFails(h) ==
    /\ pc[h] = "parse"
    /\ ParseMultipartForm(call[h].r, t.MaxFileSize) # NoError
    /\ uploadedFiles' = [uploadedFiles EXCEPT ![h] = <<>>]
    /\ err' = [err EXCEPT ![h] = ErrTooBig]
    /\ pc' = [pc EXCEPT ![h] = "returned"]
    /\ UNCHANGED <<helperVars, t, disk, dirs, call, order, log, openFiles, ret>>

\* Lines 60-67: parsing succeeds and the range loops fix their order.
ParseSucceeds(h) ==
    /\ pc[h] = "parse"
    /\ ParseMultipartForm(call[h].r, t.MaxFileSize) = NoError
    /\ \E o \in RangeOrders(call[h].r.File) : order' = [order EXCEPT ![h] = o]
    /\ pc' = [pc EXCEPT ![h] = "range"]
    /\ UNCHANGED <<helperVars, t, disk, dirs, call, uploadedFiles, err, log, openFiles, ret>>

\* Lines 67-155: one iteration of the inner loop, the function literal on the
\* next header, the assignment of its results to uploadedFiles and err, and
\* the return on error.
ProcessPart(h) ==
    /\ pc[h] = "range"
    /\ Len(log[h]) < Len(order[h])
    /\ LET k == Len(log[h]) + 1
           hdr == Header(h, k)
           rd == Read(hdr.content, 0, BuffLen)
           fileType == DetectContentType(rd.buff)
       IN  \E env \in Envs(call[h].renameFile) :
         LET res == Closure(hdr, rd, fileType, env, t.AllowedFileTypes,
                            call[h].renameFile, call[h].uploadDir,
                            uploadedFiles[h], disk, dirs)
         IN  /\ uploadedFiles' = [uploadedFiles EXCEPT ![h] = res.files]
             /\ err' = [err EXCEPT ![h] = res.err]
             /\ disk' = res.disk
             /\ openFiles' = openFiles \cup {<<h, k, x>> : x \in res.leaked}
             /\ log' = [log EXCEPT ![h] = Append(@, res.entry)]
             /\ pc' = [pc EXCEPT ![h] = IF StopOnError(res.err) THEN "returned" ELSE "range"]
    /\ UNCHANGED <<helperVars, t, dirs, call, order, ret>>

\* Line 158: "return uploadedFiles, nil" after the last header.
ReturnFiles(h) ==
    /\ pc[h] = "range"
    /\ Len(log[h]) = Len(order[h])
    /\ err' = [err EXCEPT ![h] = NoError]
    /\ pc' = [pc EXCEPT ![h] = "returned"]
    /\ UNCHANGED <<helperVars, t, disk, dirs, call, order, uploadedFiles, log, openFiles, ret>>

\* Lines 31-33 of UploadOneFile: "if err != nil { return nil, err }".
OneFileError(h) ==
    /\ pc[h] = "returned"
    /\ call[h].op = "UploadOneFile"
    /\ err[h] # NoError
    /\ ret' = [ret EXCEPT ![h] = [kind |-> "values", file |-> <<>>, err |-> err[h]]]
    /\ pc' = [pc EXCEPT ![h] = "done"]
    /\ UNCHANGED <<helperVars, t, disk, dirs, call, order, uploadedFiles, err, log, openFiles>>

\* Line 35 of UploadOneFile: "return files[0], nil" with a file in files.
OneFileFirst(h) ==
    /\ pc[h] = "returned"
    /\ call[h].op = "UploadOneFile"
    /\ err[h] = NoError
    /\ Len(uploadedFiles[h]) > 0
    /\ ret' = [ret EXCEPT ![h] =
                 [kind |-> "values", file |-> <<uploadedFiles[h][1]>>, err |-> NoError]]
    /\ pc' = [pc EXCEPT ![h] = "done"]
    /\ UNCHANGED <<helperVars, t, disk, dirs, call, order, uploadedFiles, err, log, openFiles>>

\* Line 35 of UploadOneFile with files empty: files[0] is out of range and
\* the goroutine panics; nothing is returned.
OneFilePanic(h) ==
    /\ pc[h] = "returned"
    /\ call[h].op = "UploadOneFile"
    /\ err[h] = NoError
    /\ Len(uploadedFiles[h]) = 0
    /\ ret' = [ret EXCEPT ![h] = [kind |-> "panic"]]
    /\ pc' = [pc EXCEPT ![h] = "panic"]
    /\ UNCHANGED <<helperVars, t, disk, dirs, call, order, uploadedFiles, err, log, openFiles>>

Next ==
    \E h \in Handlers :
        \/ Call(h)
        \/ CheckMaxFileSize(h)
        \/ SetDefaultMaxFileSize(h)
        \/ ParseFails(h)
        \/ ParseSucceeds(h)
        \/ ProcessPart(h)
        \/ ReturnFiles(h)
        \/ OneFileError(h)
        \/ OneFileFirst(h)
        \/ OneFilePanic(h)

Spec == Init /\ [][Next]_vars

SpecShared == InitShared /\ [][Next]_vars

-----------------------------------------------------------------------------
(* Tools.RandomString on its own.                                          *)

\* "var testTools Tools": the zero Tools value.
ZeroTools ==
    [MaxFileSize |-> 0, AllowedFileTypes |-> <<>>,
     MaxJSONSize |-> 0, AllowUnknownFields |-> FALSE]

\* No handler runs an upload.
NoUploads ==
    /\ InitFiles
    /\ pc = [h \in Handlers |-> "off"]

InitRandom ==
    /\ t = ZeroTools
    /\ NoUploads
    /\ rnd = [pc |-> "idle"]
    /\ rj = NoHelper
    /\ wj = NoHelper
    /\ sl = NoHelper
    /\ cd = NoHelper

\* RandomString(n) (tools.go:33-52) with the primes the loop draws.
RandomStringCall ==
    /\ rnd.pc = "idle"
    /\ \E n \in 0..MaxRandomLen :
         \E draws \in [1..n -> PrimeResidues(Len(randomStrSource))] :
             rnd' = [pc |-> "done", n |-> n, draws |-> draws,
                     str |-> RandomString(n, draws)]
    /\ UNCHANGED <<t, uploadVars, rj, wj, sl, cd>>

SpecRandom == InitRandom /\ [][RandomStringCall]_vars

-----------------------------------------------------------------------------
(* encoding/json's scanner, which json.Decoder.Decode (json.go:39, 79)     *)
(* runs over the bytes of the body: a step function per state and a stack  *)
(* of the objects and arrays that are open.                                *)

\* isSpace: space, tab, carriage return, line feed.
isSpace(c) == c \in {32, 9, 13, 10}

\* s.step(s, c): the step function the scanner is in, applied to c. The step
\* functions are those of encoding/json's scanner.go, under their names.
Step(step, stack, c) ==
    LET
        IsDigit(b) == 48 <= b /\ b <= 57
        IsHex(b) == IsDigit(b) \/ (97 <= b /\ b <= 102) \/ (65 <= b /\ b <= 70)

        \* What a step gives: the scan code, the next step function and the stack.
        Scan(code, fn, stk) == [op |-> code, step |-> fn, stack |-> stk]

        \* s.error: scanError.
        scanError == Scan("scanError", "stateError", <<>>)

        \* stateEndTop: the top-level value ended before this byte.
        stateEndTop(b) == Scan("scanEnd", "stateEndTop", <<>>)

        \* popParseState.
        popParseState(code, stk) ==
            LET rest == SubSeq(stk, 1, Len(stk) - 1)
            IN  Scan(code, IF rest = <<>> THEN "stateEndTop" ELSE "stateEndValue", rest)

        \* stateEndValue: after a value, such as after reading `{}` or `true`.
        stateEndValue(stk, b) ==
            IF stk = <<>> THEN stateEndTop(b)
            ELSE IF isSpace(b) THEN Scan("scanSkipSpace", "stateEndValue", stk)
            ELSE LET ps == stk[Len(stk)]
                     n == Len(stk)
                 IN  IF ps = "parseObjectKey" THEN
                         IF b = 58     \* ':'
                         THEN Scan("scanObjectKey", "stateBeginValue",
                                   [stk EXCEPT ![n] = "parseObjectValue"])
                         ELSE scanError
                     ELSE IF ps = "parseObjectValue" THEN
                         IF b = 44     \* ','
                         THEN Scan("scanObjectValue", "stateBeginString",
                                   [stk EXCEPT ![n] = "parseObjectKey"])
                         ELSE IF b = 125     \* '}'
                         THEN popParseState("scanEndObject", stk)
                         ELSE scanError
                     ELSE \* parseArrayValue
                         IF b = 44     \* ','
                         THEN Scan("scanArrayValue", "stateBeginValue", stk)
                         ELSE IF b = 93     \* ']'
                         THEN popParseState("scanEndArray", stk)
                         ELSE scanError

        \* stateBeginValue: at the beginning of the input or of a value.
        stateBeginValue(stk, b) ==
            IF isSpace(b) THEN Scan("scanSkipSpace", "stateBeginValue", stk)
            ELSE IF b = 123     \* '{'
            THEN Scan("scanBeginObject", "stateBeginStringOrEmpty", Append(stk, "parseObjectKey"))
            ELSE IF b = 91      \* '['
            THEN Scan("scanBeginArray", "stateBeginValueOrEmpty", Append(stk, "parseArrayValue"))
            ELSE IF b = 34      \* '"'
            THEN Scan("scanBeginLiteral", "stateInString", stk)
            ELSE IF b = 45      \* '-'
            THEN Scan("scanBeginLiteral", "stateNeg", stk)
            ELSE IF b = 48      \* '0'
            THEN Scan("scanBeginLiteral", "state0", stk)
            ELSE IF b = 116     \* 't'
            THEN Scan("scanBeginLiteral", "stateT", stk)
            ELSE IF b = 102     \* 'f'
            THEN Scan("scanBeginLiteral", "stateF", stk)
            ELSE IF b = 110     \* 'n'
            THEN Scan("scanBeginLiteral", "stateN", stk)
            ELSE IF 49 <= b /\ b <= 57     \* '1'..'9'
            THEN Scan("scanBeginLiteral", "state1", stk)
            ELSE scanError

        \* stateBeginValueOrEmpty: after reading `[`.
        stateBeginValueOrEmpty(stk, b) ==
            IF isSpace(b) THEN Scan("scanSkipSpace", "stateBeginValueOrEmpty", stk)
            ELSE IF b = 93 THEN stateEndValue(stk, b)
            ELSE stateBeginValue(stk, b)

        \* stateBeginString: after reading `{"key": value,`.
        stateBeginString(stk, b) ==
            IF isSpace(b) THEN Scan("scanSkipSpace", "stateBeginString", stk)
            ELSE IF b = 34 THEN Scan("scanBeginLiteral", "stateInString", stk)
            ELSE scanError

        \* stateBeginStringOrEmpty: after reading `{`.
        stateBeginStringOrEmpty(stk, b) ==
            IF isSpace(b) THEN Scan("scanSkipSpace", "stateBeginStringOrEmpty", stk)
            ELSE IF b = 125
            THEN stateEndValue([stk EXCEPT ![Len(stk)] = "parseObjectValue"], b)
            ELSE stateBeginString(stk, b)

        \* stateInString, stateInStringEsc and stateInStringEscU...: inside a string.
        stateInString(stk, b) ==
            IF b = 34 THEN Scan("scanContinue", "stateEndValue", stk)
            ELSE IF b = 92 THEN Scan("scanContinue", "stateInStringEsc", stk)
            ELSE IF b < 32 THEN scanError
            ELSE Scan("scanContinue", "stateInString", stk)

        stateInStringEsc(stk, b) ==
            IF b \in {98, 102, 110, 114, 116, 92, 47, 34}     \* b f n r t \ / "
            THEN Scan("scanContinue", "stateInString", stk)
            ELSE IF b = 117     \* 'u'
            THEN Scan("scanContinue", "stateInStringEscU", stk)
            ELSE scanError

        \* The step after each of the four hexadecimal digits of \uXXXX.
        EscUNext ==
            [stateInStringEscU |-> "stateInStringEscU1",
             stateInStringEscU1 |-> "stateInStringEscU12",
             stateInStringEscU12 |-> "stateInStringEscU123",
             stateInStringEscU123 |-> "stateInString"]

        stateInStringEscU(fn, stk, b) ==
            IF IsHex(b) THEN Scan("scanContinue", EscUNext[fn], stk) ELSE scanError

        \* stateNeg, state1, state0, stateDot, stateDot0, stateE, stateESign and
        \* stateE0: inside a number.
        state0(stk, b) ==
            IF b = 46 THEN Scan("scanContinue", "stateDot", stk)
            ELSE IF b = 101 \/ b = 69 THEN Scan("scanContinue", "stateE", stk)
            ELSE stateEndValue(stk, b)

        state1(stk, b) ==
            IF IsDigit(b) THEN Scan("scanContinue", "state1", stk)
            ELSE state0(stk, b)

        stateNeg(stk, b) ==
            IF b = 48 THEN Scan("scanContinue", "state0", stk)
            ELSE IF 49 <= b /\ b <= 57 THEN Scan("scanContinue", "state1", stk)
            ELSE scanError

        stateDot(stk, b) ==
            IF IsDigit(b) THEN Scan("scanContinue", "stateDot0", stk) ELSE scanError

        stateDot0(stk, b) ==
            IF IsDigit(b) THEN Scan("scanContinue", "stateDot0", stk)
            ELSE IF b = 101 \/ b = 69 THEN Scan("scanContinue", "stateE", stk)
            ELSE stateEndValue(stk, b)

        stateESign(stk, b) ==
            IF IsDigit(b) THEN Scan("scanContinue", "stateE0", stk) ELSE scanError

        stateE(stk, b) ==
            IF b = 43 \/ b = 45 THEN Scan("scanContinue", "stateESign", stk)
            ELSE stateESign(stk, b)

        stateE0(stk, b) ==
            IF IsDigit(b) THEN Scan("scanContinue", "stateE0", stk)
            ELSE stateEndValue(stk, b)

        \* stateT, stateTr, stateTru, stateF, ..., stateN, ...: inside true, false
        \* and null; each expects one byte and names the step that follows it.
        LiteralNext ==
            [stateT |-> <<114, "stateTr">>, stateTr |-> <<117, "stateTru">>,
             stateTru |-> <<101, "stateEndValue">>,
             stateF |-> <<97, "stateFa">>, stateFa |-> <<108, "stateFal">>,
             stateFal |-> <<115, "stateFals">>, stateFals |-> <<101, "stateEndValue">>,
             stateN |-> <<117, "stateNu">>, stateNu |-> <<108, "stateNul">>,
             stateNul |-> <<108, "stateEndValue">>]

        stateLiteral(fn, stk, b) ==
            IF b = LiteralNext[fn][1]
            THEN Scan("scanContinue", LiteralNext[fn][2], stk)
            ELSE scanError
    IN  CASE step = "stateBeginValue" -> stateBeginValue(stack, c)
        [] step = "stateBeginValueOrEmpty" -> stateBeginValueOrEmpty(stack, c)
        [] step = "stateBeginString" -> stateBeginString(stack, c)
        [] step = "stateBeginStringOrEmpty" -> stateBeginStringOrEmpty(stack, c)
        [] step = "stateEndValue" -> stateEndValue(stack, c)
        [] step = "stateEndTop" -> stateEndTop(c)
        [] step = "stateInString" -> stateInString(stack, c)
        [] step = "stateInStringEsc" -> stateInStringEsc(stack, c)
        [] step \in DOMAIN EscUNext -> stateInStringEscU(step, stack, c)
        [] step = "stateNeg" -> stateNeg(stack, c)
        [] step = "state0" -> state0(stack, c)
        [] step = "state1" -> state1(stack, c)
        [] step = "stateDot" -> stateDot(stack, c)
        [] step = "stateDot0" -> stateDot0(stack, c)
        [] step = "stateE" -> stateE(stack, c)
        [] step = "stateESign" -> stateESign(stack, c)
        [] step = "stateE0" -> stateE0(stack, c)
        [] step \in DOMAIN LiteralNext -> stateLiteral(step, stack, c)

-----------------------------------------------------------------------------
(* json.Decoder.readValue on the stream that http.MaxBytesReader gives     *)
(* (json.go:28-31).                                                        *)

\* The errors of the decoder and of the body's reader.
ErrorEOF == [type |-> "io.EOF"]
ErrUnexpectedEOF == [type |-> "io.ErrUnexpectedEOF"]
SyntaxError(offset) == [type |-> "*json.SyntaxError", Offset |-> offset]
MaxBytesError == [type |-> "*http.MaxBytesError", text |-> "http: request body too large"]

\* A failed read of the request body, such as a connection that was reset.
ErrReset == [type |-> "*net.OpError", text |-> "read: connection reset by peer"]

\* http.MaxBytesReader(w, r.Body, maxBytes) on a body of these bytes whose
\* reads end with the error end (io.EOF when the body was read in full): the
\* bytes the decoder gets to see and the error that ends them, which is
\* "http: request body too large" after maxBytes bytes of a longer body.
MaxBytesReader(body, end, maxBytes) ==
    IF Len(body) <= maxBytes
    THEN [data |-> body, final |-> end]
    ELSE [data |-> SubSeq(body, 1, maxBytes), final |-> MaxBytesError]

\* x := v, for what follows it: F of the value of v, which is computed once.
Bind(v, F(_)) == CHOOSE y \in {F(x) : x \in {v}} : TRUE

\* readValue from byte i on, the scanner being in step with stack: scanp
\* bytes were consumed by earlier values. The scan stops at the end of the
\* value, at a syntax error (whose offset is the count of bytes scanned) or
\* at the end of the stream; the reader's error is looked at only after the
\* bytes it came with have been scanned.
RECURSIVE readValueFrom(_, _, _, _, _)
readValueFrom(r, scanp, i, step, stack) ==
    LET \* nonSpace(dec.buf): some byte from scanp on is not white space.
        nonSpace == \E j \in (scanp + 1)..Len(r.data) : ~isSpace(r.data[j])
        \* The value read: the number of bytes of the stream consumed with it.
        ValueEnd(end) == [type |-> "value", end |-> end]
    IN
    IF i > Len(r.data)
    THEN IF r.final = ErrorEOF
         THEN IF Step(step, stack, 32).op = "scanEnd" THEN ValueEnd(Len(r.data))
              ELSE IF nonSpace THEN ErrUnexpectedEOF
              ELSE ErrorEOF
         ELSE r.final
    ELSE Bind([j |-> i, s |-> Step(step, stack, r.data[i])], LAMBDA b :
             IF b.s.op = "scanEnd" THEN ValueEnd(b.j - 1)
             ELSE IF b.s.op \in {"scanEndObject", "scanEndArray"} /\ b.s.stack = <<>>
             THEN ValueEnd(b.j)
             ELSE IF b.s.op = "scanError" THEN SyntaxError(b.j)
             ELSE readValueFrom(r, scanp, b.j + 1, b.s.step, b.s.stack))

\* readValue: dec.scan.reset() and the scan from scanp on.
readValue(r, scanp) == readValueFrom(r, scanp, scanp + 1, "stateBeginValue", <<>>)

-----------------------------------------------------------------------------
(* json.Decoder.Decode: readValue, then the decoding of the value into the *)
(* target (encoding/json's decodeState.unmarshal, value, object and        *)
(* literalStore).                                                          *)

\* Go's nil error, beside the error values of this part.
Nil == [type |-> "nil"]

UnmarshalTypeError(field, offset) ==
    [type |-> "*json.UnmarshalTypeError", Field |-> field, Offset |-> offset]
InvalidUnmarshalError == [type |-> "*json.InvalidUnmarshalError"]

\* strconv.Quote of a key of printable ASCII without quote or backslash.
Quote(key) == <<34>> \o key \o <<34>>

\* fmt.Errorf(format, args...) and errors.New(text): the format and what
\* fills its verbs.
Errorf(format, args) == [type |-> "*errors.errorString", format |-> format, args |-> args]
New(text) == Errorf(text, <<>>)

\* The first byte at or after i that is not white space.
RECURSIVE SkipSpace(_, _)
SkipSpace(data, i) ==
    IF i <= Len(data) /\ isSpace(data[i]) THEN SkipSpace(data, i + 1) ELSE i

\* The closing quote of the string literal whose content starts at i.
RECURSIVE StringEnd(_, _)
StringEnd(data, i) ==
    IF data[i] = 34 THEN i
    ELSE IF data[i] = 92 THEN StringEnd(data, i + 2)
    ELSE StringEnd(data, i + 1)

\* unquote of the content of a string literal: the bytes themselves, a
\* backslash escape replaced by the byte it stands for, \u00XX by the ASCII
\* byte of that code (any other \uXXXX, which no string of the model holds,
\* is kept as written).
RECURSIVE unquote(_)
unquote(s) ==
    LET UnescapedByte(c) ==
            CASE c = 98 -> 8 [] c = 102 -> 12 [] c = 110 -> 10 [] c = 114 -> 13
              [] c = 116 -> 9 [] OTHER -> c
        HexValue(c) ==
            IF c <= 57 THEN c - 48 ELSE IF c >= 97 THEN c - 87 ELSE c - 55
    IN
    IF s = <<>> THEN <<>>
    ELSE IF s[1] = 92 /\ Len(s) >= 2 /\ s[2] # 117
    THEN <<UnescapedByte(s[2])>> \o unquote(SubSeq(s, 3, Len(s)))
    ELSE IF s[1] = 92 /\ Len(s) >= 6 /\ s[2] = 117 /\ s[3] = 48 /\ s[4] = 48
            /\ 16 * HexValue(s[5]) + HexValue(s[6]) < 128
    THEN <<16 * HexValue(s[5]) + HexValue(s[6])>> \o unquote(SubSeq(s, 7, Len(s)))
    ELSE <<s[1]>> \o unquote(Tail(s))

\* d.object on a struct: the members of the object from byte i on (the byte
\* after `{` or after a comma). A key that names no field is an error when
\* unknown fields are disallowed; a value that a string field cannot hold is
\* a type error naming the field; null leaves the field alone. base is the
\* number of bytes of the stream before the value.
RECURSIVE object(_, _, _, _, _, _, _)
object(data, base, i, fields, disallow, saved, vals) ==
    LET \* d.saveError: the first error saved is the one kept.
        saveError(old, new) == IF old = Nil THEN new ELSE old
        \* The last byte of the value that starts at byte j.
        valueEnd(j) ==
            readValueFrom([data |-> data, final |-> ErrorEOF], j - 1, j,
                          "stateBeginValue", <<>>).end
        \* The field of the target that a key names: the one whose name is
        \* the key, else the first whose name equals it under case folding,
        \* else none (0).
        FieldOf(name) ==
            IF \E g \in 1..Len(fields) : fields[g].name = name
            THEN CHOOSE g \in 1..Len(fields) : fields[g].name = name
            ELSE IF \E g \in 1..Len(fields) : EqualFold(fields[g].name, name)
            THEN CHOOSE g \in 1..Len(fields) :
                     /\ EqualFold(fields[g].name, name)
                     /\ \A h \in 1..(g - 1) : ~EqualFold(fields[h].name, name)
            ELSE 0
        \* What the member with key and value in bytes v..e gives: an error
        \* to save, and the fields as they are after it.
        error(key, f, v, e) ==
            IF f = 0
            THEN IF disallow THEN Errorf("json: unknown field %q", <<key>>) ELSE Nil
            ELSE IF data[v] \in {34, 110} THEN Nil
            ELSE UnmarshalTypeError(fields[f].name,
                                    IF data[v] \notin {123, 91}
                                    THEN e - base ELSE v - base)
        stored(f, v, e) ==
            IF f # 0 /\ data[v] = 34
            THEN [vals EXCEPT ![f] = unquote(SubSeq(data, v + 1, e - 1))]
            ELSE vals
    IN  Bind(SkipSpace(data, i), LAMBDA k :
        IF data[k] = 125 THEN [err |-> saved, vals |-> vals]
        ELSE
        Bind(StringEnd(data, k + 1), LAMBDA q :
        Bind(unquote(SubSeq(data, k + 1, q - 1)), LAMBDA key :
        Bind(SkipSpace(data, SkipSpace(data, q + 1) + 1), LAMBDA v :
        Bind(valueEnd(v), LAMBDA e :
        Bind(FieldOf(key), LAMBDA f :
        Bind(saveError(saved, error(key, f, v, e)), LAMBDA kept :
        Bind(stored(f, v, e), LAMBDA now :
        Bind(SkipSpace(data, e + 1), LAMBDA next :
            IF data[next] = 44
            THEN object(data, base, next + 1, fields, disallow, kept, now)
            ELSE [err |-> kept, vals |-> now])))))))))

\* d.unmarshal(v) on the value in bytes base+1..end of data: v must be a
\* non-nil pointer; an object is decoded into the struct, null leaves it
\* alone, any other value is a type error with no field name.
unmarshal(data, base, end, target, disallow) ==
    Bind(SkipSpace(data, base + 1), LAMBDA v :
    Bind([f \in 1..Len(target.fields) |-> <<>>], LAMBDA zero :
        IF ~target.pointer THEN [err |-> InvalidUnmarshalError, vals |-> zero]
        ELSE IF data[v] = 123
        THEN object(data, base, v + 1, target.fields, disallow, Nil, zero)
        ELSE IF data[v] = 110 THEN [err |-> Nil, vals |-> zero]
        ELSE IF data[v] = 91
        THEN [err |-> UnmarshalTypeError(<<>>, v - base), vals |-> zero]
        ELSE [err |-> UnmarshalTypeError(<<>>, end - base), vals |-> zero]))

\* dec.Decode(v) with scanp bytes consumed so far: the error, the bytes
\* consumed afterwards and the fields stored.
Decode(r, scanp, target, disallow) ==
    Bind(readValue(r, scanp), LAMBDA rv :
        IF rv.type # "value"
        THEN [err |-> rv, scanp |-> scanp, vals |-> <<>>]
        ELSE Bind(unmarshal(r.data, scanp, rv.end, target, disallow), LAMBDA u :
                 [err |-> u.err, scanp |-> rv.end, vals |-> u.vals]))

-----------------------------------------------------------------------------
(* Tools.ReadJSON (json.go:20-85).                                         *)

\* Lines 22-25: "maxBytes := 1024 * 1024", replaced by t.MaxJSONSize if that
\* is set.
maxBytes(tools) ==
    IF tools.MaxJSONSize # 0 THEN tools.MaxJSONSize ELSE 1024 * 1024

\* Lines 34-36: decodedBody.DisallowUnknownFields() unless unknown fields
\* are allowed.
DisallowUnknownFields_Always(tools) == TRUE

DisallowUnknownFields(tools) == ~tools.AllowUnknownFields

\* Line 48: errors.Is(err, io.ErrUnexpectedEOF).
IsUnexpectedEOF_AnyEOF(error) == error \in {ErrUnexpectedEOF, ErrorEOF}

IsUnexpectedEOF(error) == error = ErrUnexpectedEOF

\* Lines 40-74: the error ReadJSON returns for a failed first Decode; the
\* cases are tried in the order of the switch.
Classify(error, limit) ==
    LET \* Line 61: strings.HasPrefix(err.Error(), "json: unknown field"),
        \* which of the decoder's errors only the unknown-field error satisfies.
        HasUnknownFieldPrefix ==
            error.type = "*errors.errorString" /\ error.format = "json: unknown field %q"
        \* Line 63: strings.TrimPrefix(err.Error(), "json: unknown field"): what
        \* is left of `json: unknown field "key"` is a space and the quoted key.
        TrimUnknownFieldPrefix == <<32>> \o Quote(error.args[1])
    IN
    IF error.type = "*json.SyntaxError"
    THEN Errorf("body contains badly-formed JSON (at character %d)", <<error.Offset>>)
    ELSE IF IsUnexpectedEOF(error)
    THEN New("body contains badly-formed JSON")
    ELSE IF error.type = "*json.UnmarshalTypeError"
    THEN IF error.Field # <<>>
         THEN Errorf("body contains incorrect JSON type for field %q", <<error.Field>>)
         ELSE Errorf("body contains incorrect JSON type (at character %d)", <<error.Offset>>)
    ELSE IF error = ErrorEOF
    THEN New("body must not be empty")
    ELSE IF HasUnknownFieldPrefix
    THEN Errorf("body contains unknown key %s", <<TrimUnknownFieldPrefix>>)
    ELSE IF error.type = "*http.MaxBytesError"
    THEN Errorf("body must not be larger %d bytes", <<limit>>)
    ELSE IF error.type = "*json.InvalidUnmarshalError"
    THEN Errorf("error unmarshalling JSON %s", <<error>>)
    ELSE error

\* Line 80: "if err != io.EOF".
NotEOF_Never(error) == FALSE

NotEOF(error) == error # ErrorEOF

\* ReadJSON(w, r, data) on a request whose body holds the bytes body and ends
\* with end: the error returned and the fields stored in data.
ReadJSON(tools, body, end, data) ==
    LET \* &struct{}{}: the target of the second Decode.
        EmptyStruct == [pointer |-> TRUE, fields |-> <<>>]
    IN  Bind(maxBytes(tools), LAMBDA limit :
        Bind(MaxBytesReader(body, end, limit), LAMBDA r :
        Bind(Decode(r, 0, data, DisallowUnknownFields(tools)), LAMBDA first :
            IF first.err # Nil
            THEN [err |-> Classify(first.err, limit), vals |-> first.vals]
            ELSE Bind(Decode(r, first.scanp, EmptyStruct,
                             DisallowUnknownFields(tools)), LAMBDA second :
                     IF NotEOF(second.err)
                     THEN [err |-> New("body must contain only one JSON value"),
                           vals |-> first.vals]
                     ELSE [err |-> Nil, vals |-> first.vals]))))

\* The request bodies of the model, by name; the text of each is in the
\* comment above it.
Body ==
      \* {"foo":"bar"}
    [ FooBar |->
          <<123, 34, 102, 111, 111, 34, 58, 34, 98, 97, 114, 34, 125>>,
      \* {"foo":"bar"}{"hello":"world"}
      TwoValues |->
          <<123, 34, 102, 111, 111, 34, 58, 34, 98, 97, 114, 34, 125, 123,
           34, 104, 101, 108, 108, 111, 34, 58, 34, 119, 111, 114, 108, 100,
           34, 125>>,
      \* {"hello":"world"}
      HelloWorld |->
          <<123, 34, 104, 101, 108, 108, 111, 34, 58, 34, 119, 111, 114, 108,
           100, 34, 125>>,
      \* {"foo": 1}
      FooNumber |->
          <<123, 34, 102, 111, 111, 34, 58, 32, 49, 125>>,
      \* {"foo":}
      FooMissing |->
          <<123, 34, 102, 111, 111, 34, 58, 125>>,
      \* {"foo":"bar"} \n
      TrailingSpace |->
          <<123, 34, 102, 111, 111, 34, 58, 34, 98, 97, 114, 34, 125, 32, 10>>,
      \* {"foo":"bar"} x
      TrailingByte |->
          <<123, 34, 102, 111, 111, 34, 58, 34, 98, 97, 114, 34, 125, 32, 120>>,
      \* {"foo":1,"hello":2}
      TypeThenUnknown |->
          <<123, 34, 102, 111, 111, 34, 58, 49, 44, 34, 104, 101, 108, 108,
           111, 34, 58, 50, 125>>,
      \* {"hello":2,"foo":1}
      UnknownThenType |->
          <<123, 34, 104, 101, 108, 108, 111, 34, 58, 50, 44, 34, 102, 111,
           111, 34, 58, 49, 125>>,
      \* Hello, World!
      HelloText |->
          <<72, 101, 108, 108, 111, 44, 32, 87, 111, 114, 108, 100, 33>>,
      \* {foo:"bar"}
      FooUnquoted |->
          <<123, 102, 111, 111, 58, 34, 98, 97, 114, 34, 125>>,
      \* two spaces
      Blank |->
          <<32, 32>>,
      \* 1
      One |->
          <<49>>,
      \*  12
      SpaceTwelve |->
          <<32, 49, 50>>,
      \* "x"
      StringX |->
          <<34, 120, 34>>,
      \* [1]
      ArrayOne |->
          <<91, 49, 93>>,
      \* null
      NullValue |->
          <<110, 117, 108, 108>>,
      \* true
      TrueValue |->
          <<116, 114, 117, 101>>,
      \* {"FOO":"Bar"}
      FooCaps |->
          <<123, 34, 70, 79, 79, 34, 58, 34, 66, 97, 114, 34, 125>>,
      \* {"foo":null}
      FooNull |->
          <<123, 34, 102, 111, 111, 34, 58, 110, 117, 108, 108, 125>>,
      \* {"foo":[1]}
      FooArray |->
          <<123, 34, 102, 111, 111, 34, 58, 91, 49, 93, 125>>,
      \* {"foo":true}
      FooTrue |->
          <<123, 34, 102, 111, 111, 34, 58, 116, 114, 117, 101, 125>>,
      \* {"foo":"a\nb"}
      FooEscape |->
          <<123, 34, 102, 111, 111, 34, 58, 34, 97, 92, 110, 98, 34, 125>>,
      \* {"foo":"bar"}2
      FooBarTwo |->
          <<123, 34, 102, 111, 111, 34, 58, 34, 98, 97, 114, 34, 125, 50>>,
      \* {"foo":"bar","x":1}
      FooThenUnknown |->
          <<123, 34, 102, 111, 111, 34, 58, 34, 98, 97, 114, 34, 44, 34, 120,
           34, 58, 49, 125>>
    ]

\* The bodies a request may have: some of the named bodies with every prefix
\* of theirs, the empty one included, and the others as they are.
Bodies ==
    LET Prefixes(body) == {SubSeq(body, 1, k) : k \in 0..Len(body)}
        BaseBodies ==
            {Body.FooBar, Body.TwoValues, Body.HelloWorld, Body.FooNumber,
             Body.FooMissing, Body.TrailingSpace, Body.TrailingByte,
             Body.TypeThenUnknown, Body.UnknownThenType, Body.FooThenUnknown}
    IN  UNION {Prefixes(b) : b \in BaseBodies}
        \cup {Body.HelloText, Body.FooUnquoted, Body.Blank, Body.One,
              Body.SpaceTwelve, Body.StringX, Body.ArrayOne, Body.NullValue,
              Body.TrueValue, Body.FooCaps, Body.FooNull, Body.FooArray,
              Body.FooTrue, Body.FooEscape, Body.FooBarTwo}

\* The target of the tests, a pointer to struct { Foo string `json:"foo"` },
\* and a target that is no pointer.
FooStruct == [pointer |-> TRUE, fields |-> <<[name |-> <<102, 111, 111>>, kind |-> "string"]>>]
Targets == {FooStruct, [FooStruct EXCEPT !.pointer = FALSE]}

\* A MaxJSONSize that some bodies exceed.
SmallMaxJSONSize == 13

\* The Tools values: MaxJSONSize unset or small, unknown fields allowed or
\* not.
InitReadJSON ==
    /\ t \in {[ZeroTools EXCEPT !.MaxJSONSize = m, !.AllowUnknownFields = a] :
                 m \in {0, SmallMaxJSONSize}, a \in BOOLEAN}
    /\ NoUploads
    /\ rnd = NoHelper
    /\ rj = [pc |-> "idle"]
    /\ wj = NoHelper
    /\ sl = NoHelper
    /\ cd = NoHelper

\* A handler calls ReadJSON on a request with some body, the reads of which
\* end at its end or with a failure.
ReadJSONCall ==
    /\ rj.pc = "idle"
    /\ \E body \in Bodies, end \in {ErrorEOF, ErrReset}, data \in Targets :
         \E res \in {ReadJSON(t, body, end, data)} :
             rj' = [pc |-> "done", body |-> body, end |-> end, data |-> data,
                    err |-> res.err, vals |-> res.vals]
    /\ UNCHANGED <<t, uploadVars, rnd, wj, sl, cd>>

SpecReadJSON == InitReadJSON /\ [][ReadJSONCall]_vars

-----------------------------------------------------------------------------
(* Tools.WriteJSON (json.go:88-113) on an http.ResponseWriter.             *)

\* textproto.CanonicalMIMEHeaderKey: the first letter and every letter after
\* a hyphen in upper case, the other letters in lower case; a key holding a
\* byte that is no token byte is returned as it is.
CanonicalMIMEHeaderKey(key) ==
    LET \* The bytes a header key may hold (net/textproto's token table):
        \* letters, digits and ! # $ % & ' * + - . ^ _ ` | ~.
        TokenBytes ==
            (48..57) \cup (65..90) \cup (97..122)
            \cup {33, 35, 36, 37, 38, 39, 42, 43, 45, 46, 94, 95, 96, 124, 126}
        RECURSIVE canonicalFrom(_, _)
        canonicalFrom(i, upper) ==
            IF i > Len(key) THEN <<>>
            ELSE LET c == key[i]
                     d == IF upper /\ 97 <= c /\ c <= 122 THEN c - 32
                          ELSE IF ~upper /\ 65 <= c /\ c <= 90 THEN c + 32
                          ELSE c
                 IN  <<d>> \o canonicalFrom(i + 1, c = 45)
    IN  IF \A i \in 1..Len(key) : key[i] \in TokenBytes
        THEN canonicalFrom(1, TRUE)
        ELSE key

\* "Content-Type"
ContentTypeKey ==
    <<67, 111, 110, 116, 101, 110, 116, 45, 84, 121, 112, 101>>

\* The other header keys of the model: "X-Test", "x-test", "content-type"
\* and "Foo".
HeaderKey ==
    [XTest |-> <<88, 45, 84, 101, 115, 116>>,
     xtest |-> <<120, 45, 116, 101, 115, 116>>,
     contenttype |-> <<99, 111, 110, 116, 101, 110, 116, 45, 116, 121, 112, 101>>,
     Foo |-> <<70, 111, 111>>]

\* An http.Header with no entry.
NoHeader == [k \in {} |-> <<>>]

\* http.Header.Set(key, value): the canonical key gets the single value.
Set(h, key, value) == (CanonicalMIMEHeaderKey(key) :> <<value>>) @@ h

\* A variant of the loop of lines 96-100 that appends the values to those
\* the response has under the key.
ApplyHeaders_Add(h, headers) ==
    IF Len(headers) > 0
    THEN [k \in DOMAIN h \cup DOMAIN headers[1] |->
             IF k \in DOMAIN headers[1]
             THEN (IF k \in DOMAIN h THEN h[k] ELSE <<>>) \o headers[1][k]
             ELSE h[k]]
    ELSE h

\* Lines 96-100: "w.Header()[indx] = hdr" for every entry of headers[0], if
\* there is one; the entries are assigned under their keys as they are.
ApplyHeaders(h, headers) ==
    IF Len(headers) > 0
    THEN [k \in DOMAIN h \cup DOMAIN headers[1] |->
             IF k \in DOMAIN headers[1] THEN headers[1][k] ELSE h[k]]
    ELSE h

\* A variant of line 103 that keeps a Content-Type the response has.
SetContentType_IfAbsent(h) ==
    IF ContentTypeKey \in DOMAIN h THEN h ELSE Set(h, ContentTypeKey, "application/json")

\* Line 103: w.Header().Set("Content-Type", "application/json").
SetContentType(h) == Set(h, ContentTypeKey, "application/json")

\* w.WriteHeader(status): the first call fixes the status and the headers
\* that are sent; a later call changes nothing.
WriteHeader(w, status) ==
    IF w.wroteHeader THEN w
    ELSE [w EXCEPT !.wroteHeader = TRUE, !.status = status, !.sent = w.header]

\* w.Write(out): the header is written with status 200 if it was not, then
\* the bytes are written, unless the write fails.
Write(w, out, fails) ==
    LET w1 == WriteHeader(w, 200)
    IN  IF fails THEN w1 ELSE [w1 EXCEPT !.body = @ \o out]

ErrWrite == [type |-> "*net.OpError", text |-> "write: broken pipe"]

\* json.Marshal of a JSONResponse (json.go:12-16): the fields error and
\* message, and data unless it is nil (omitempty); a value that has no JSON
\* form, such as a channel, makes it fail.
ErrUnsupportedType == [type |-> "*json.UnsupportedTypeError", text |-> "json: unsupported type: chan int"]

Marshal(data) ==
    LET HexDigit(n) == IF n < 10 THEN 48 + n ELSE 87 + n
        \* The encoder's string: in quotes, with a backslash before a quote
        \* and a backslash, \n \r \t for those, and \u00XX for any other
        \* control byte and for < > & (the strings of the model are ASCII).
        RECURSIVE escape(_)
        escape(s) ==
            IF s = <<>> THEN <<>>
            ELSE (CASE s[1] \in {34, 92} -> <<92, s[1]>>
                    [] s[1] = 10 -> <<92, 110>>
                    [] s[1] = 13 -> <<92, 114>>
                    [] s[1] = 9 -> <<92, 116>>
                    [] s[1] < 32 \/ s[1] \in {60, 62, 38} ->
                         <<92, 117, 48, 48, HexDigit(s[1] \div 16), HexDigit(s[1] % 16)>>
                    [] OTHER -> <<s[1]>>)
                 \o escape(Tail(s))
        String(s) == <<34>> \o escape(s) \o <<34>>
    IN
    IF data.Data.kind = "chan" THEN [out |-> <<>>, err |-> ErrUnsupportedType]
    ELSE [out |->
              <<123, 34, 101, 114, 114, 111, 114, 34, 58>>                     \* {"error":
              \o (IF data.Error THEN <<116, 114, 117, 101>>                    \* true
                  ELSE <<102, 97, 108, 115, 101>>)                             \* false
              \o <<44, 34, 109, 101, 115, 115, 97, 103, 101, 34, 58>>          \* ,"message":
              \o String(data.Message)
              \o (IF data.Data.kind = "nil" THEN <<>>
                  ELSE <<44, 34, 100, 97, 116, 97, 34, 58>>                    \* ,"data":
                       \o String(data.Data.value))
              \o <<125>>,                                                      \* }
          err |-> Nil]

\* Lines 91-93: "if err != nil { return err }".
MarshalFailed_Never(error) == FALSE

MarshalFailed(error) == error # Nil

\* The payloads: JSONResponse values with and without data, and one whose
\* data is a channel.
Payloads ==
    {[Error |-> e, Message |-> <<102, 111, 111>>, Data |-> d] :     \* "foo"
        e \in BOOLEAN,
        d \in {[kind |-> "nil"], [kind |-> "string", value |-> <<120>>], [kind |-> "chan"]}}

\* http.StatusOK and http.StatusBadRequest.
Statuses == {200, 400}

\* The variadic headers argument: omitted, one http.Header, or two.
HeaderArgs ==
    LET HeaderMaps ==
            {NoHeader,
             HeaderKey.XTest :> <<"1">>,
             HeaderKey.XTest :> <<"1", "2">>,
             HeaderKey.xtest :> <<"1">>,
             ContentTypeKey :> <<"text/html">>,
             (HeaderKey.contenttype :> <<"text/html">>) @@ (HeaderKey.Foo :> <<"BAR">>)}
    IN  {<<>>} \cup {<<h>> : h \in HeaderMaps}
        \cup {<<HeaderKey.XTest :> <<"1">>, HeaderKey.Foo :> <<"BAR">>>>}

\* The responses WriteJSON is called on: nothing written, with or without
\* headers set by the handler before.
Responses ==
    {[header |-> h, wroteHeader |-> FALSE, status |-> 0, sent |-> NoHeader, body |-> <<>>] :
        h \in {NoHeader, HeaderKey.XTest :> <<"0">>, ContentTypeKey :> <<"text/plain">>}}

InitWriteJSON ==
    /\ t = ZeroTools
    /\ NoUploads
    /\ rnd = NoHelper
    /\ rj = NoHelper
    /\ wj = [pc |-> "idle"]
    /\ sl = NoHelper
    /\ cd = NoHelper

\* A handler calls WriteJSON(w, status, data, headers...).
WriteJSONCall ==
    /\ wj.pc = "idle"
    /\ \E w \in Responses, status \in Statuses, data \in Payloads, headers \in HeaderArgs :
         wj' = [pc |-> "marshal", status |-> status, data |-> data,
                headers |-> headers, w0 |-> w, w |-> w, out |-> <<>>,
                err |-> Nil, events |-> <<>>]
    /\ UNCHANGED <<t, uploadVars, rnd, rj, sl, cd>>

\* Lines 90-93: json.Marshal(data), and the return of its error.
MarshalData ==
    /\ wj.pc = "marshal"
    /\ LET res == Marshal(wj.data)
       IN  wj' = IF MarshalFailed(res.err)
                 THEN [wj EXCEPT !.pc = "done", !.err = res.err]
                 ELSE [wj EXCEPT !.pc = "headers", !.out = res.out]
    /\ UNCHANGED <<t, uploadVars, rnd, rj, sl, cd>>

\* Lines 96-100: the caller's headers are assigned to the response's.
ApplyCallerHeaders ==
    /\ wj.pc = "headers"
    /\ wj' = [wj EXCEPT !.pc = "contentType",
                        !.w.header = ApplyHeaders(@, wj.headers),
                        !.events = IF Len(wj.headers) > 0
                                   THEN Append(@, "headers") ELSE @]
    /\ UNCHANGED <<t, uploadVars, rnd, rj, sl, cd>>

\* Line 103: Content-Type is set.
SetContentTypeHeader ==
    /\ wj.pc = "contentType"
    /\ wj' = [wj EXCEPT !.pc = "writeHeader",
                        !.w.header = SetContentType(@),
                        !.events = Append(@, "Content-Type")]
    /\ UNCHANGED <<t, uploadVars, rnd, rj, sl, cd>>

\* Line 104: w.WriteHeader(status).
WriteStatus ==
    /\ wj.pc = "writeHeader"
    /\ wj' = [wj EXCEPT !.pc = "write",
                        !.w = WriteHeader(@, wj.status),
                        !.events = Append(@, "WriteHeader")]
    /\ UNCHANGED <<t, uploadVars, rnd, rj, sl, cd>>

\* Lines 106-112: w.Write(out), which may fail, and the return.
WriteBody ==
    /\ wj.pc = "write"
    /\ \E fails \in BOOLEAN :
         wj' = [wj EXCEPT !.pc = "done",
                          !.w = Write(@, wj.out, fails),
                          !.err = IF fails THEN ErrWrite ELSE Nil,
                          !.events = Append(@, "Write")]
    /\ UNCHANGED <<t, uploadVars, rnd, rj, sl, cd>>

NextWriteJSON ==
    \/ WriteJSONCall
    \/ MarshalData
    \/ ApplyCallerHeaders
    \/ SetContentTypeHeader
    \/ WriteStatus
    \/ WriteBody

SpecWriteJSON == InitWriteJSON /\ [][NextWriteJSON]_vars

-----------------------------------------------------------------------------
(* Tools.ErrorJSON (json.go:116-128), which ends in a call of WriteJSON.    *)

\* A variant of lines 118-121 that takes the last status supplied.
ErrorJSONStatus_Last(status) ==
    IF Len(status) > 0 THEN status[Len(status)] ELSE 400

\* Lines 118-121: statusCode is http.StatusBadRequest unless a status is
\* supplied, and then the first one.
ErrorJSONStatus(status) ==
    IF Len(status) > 0 THEN status[1] ELSE 400

\* A handler calls ErrorJSON(w, err, status...): lines 117-125, up to the
\* call of WriteJSON with the status code, the payload and no headers. The
\* errors are "error", `a"b\c` and a "<" followed by a line feed; the
\* statuses are omitted, those of the tests, or two.
ErrorJSONCall ==
    /\ wj.pc = "idle"
    /\ \E w \in Responses,
          e \in {<<101, 114, 114, 111, 114>>, <<97, 34, 98, 92, 99>>, <<60, 10>>},
          status \in {<<>>, <<406>>, <<403>>, <<504>>, <<200>>, <<504, 403>>} :
         wj' = [pc |-> "marshal",
                status |-> ErrorJSONStatus(status),
                data |-> [Error |-> TRUE, Message |-> e, Data |-> [kind |-> "nil"]],
                headers |-> <<>>, w0 |-> w, w |-> w, out |-> <<>>,
                err |-> Nil, events |-> <<>>,
                errorJSON |-> [err |-> e, status |-> status]]
    /\ UNCHANGED <<t, uploadVars, rnd, rj, sl, cd>>

\* Line 127: "return t.WriteJSON(w, statusCode, JSONPayload)".
ErrorJSONReturn ==
    /\ wj.pc = "done"
    /\ wj' = [wj EXCEPT !.pc = "returned", !.errorJSON = @ @@ [ret |-> wj.err]]
    /\ UNCHANGED <<t, uploadVars, rnd, rj, sl, cd>>

NextErrorJSON ==
    \/ ErrorJSONCall
    \/ MarshalData
    \/ ApplyCallerHeaders
    \/ SetContentTypeHeader
    \/ WriteStatus
    \/ WriteBody
    \/ ErrorJSONReturn

SpecErrorJSON == InitWriteJSON /\ [][NextErrorJSON]_vars

-----------------------------------------------------------------------------
(* Tools.Slugify (tools.go:72-91).  Here a string is the sequence of its   *)
(* code points, which is what strings.Trim, strings.ToLower and the        *)
(* regular expression work on; a string is empty exactly if the sequence   *)
(* is.                                                                     *)

\* The longest argument of Slugify taken from SlugRunes.
MaxSlugLen == 3

\* Slugify(str): the slug and the error it returns.
Slugify(str) ==
    LET \* strings.Trim(s, cutset) with a cutset of the one code point c.
        Trim(s, c) ==
            LET keep == {i \in 1..Len(s) : s[i] # c}
            IN  IF keep = {} THEN <<>>
                ELSE LET first == CHOOSE i \in keep : \A j \in keep : i <= j
                         last == CHOOSE i \in keep : \A j \in keep : j <= i
                     IN  SubSeq(s, first, last)
        \* unicode.ToLower on the code points of the model: A-Z, the
        \* Cyrillic capitals, U+0130 (capital I with a dot above, which
        \* unicode's tables map to "i") and U+212A (the Kelvin sign, which
        \* they map to "k").
        ToLower(c) ==
            IF c \in 65..90 THEN c + 32
            ELSE IF c \in 1040..1071 THEN c + 32
            ELSE IF c = 304 THEN 105
            ELSE IF c = 8490 THEN 107
            ELSE c
        \* The class [a-z\d] of line 80, of which \d is 0-9 only.
        InClass(c) == c \in 97..122 \/ c \in 48..57
        \* regex.ReplaceAllString(s, "-") for [^a-z\d]+: the matches are the
        \* maximal runs of code points outside the class, each replaced by
        \* one "-", so one code point is left at every position that is in
        \* the class or begins a run.
        ReplaceAllString(s) ==
            LET left == {i \in 1..Len(s) : InClass(s[i]) \/ i = 1 \/ InClass(s[i - 1])}
                at(k) == CHOOSE i \in left : Cardinality({j \in left : j <= i}) = k
            IN  [k \in 1..Cardinality(left) |->
                    IF InClass(s[at(k)]) THEN s[at(k)] ELSE 45]
    IN  Bind(Trim(str, 32), LAMBDA trimmed :
          IF Len(trimmed) = 0
          THEN [slug |-> <<>>, err |-> New("empty string not permitted")]
          ELSE Bind(Trim(ReplaceAllString([i \in 1..Len(trimmed) |-> ToLower(trimmed[i])]), 45),
                    LAMBDA slug :
                 IF Len(slug) = 0
                 THEN [slug |-> <<>>, err |-> New("resultant string is empty")]
                 ELSE [slug |-> slug, err |-> Nil]))

InitSlugify ==
    /\ t = ZeroTools
    /\ NoUploads
    /\ rnd = NoHelper
    /\ rj = NoHelper
    /\ wj = NoHelper
    /\ sl = [pc |-> "idle"]
    /\ cd = NoHelper

\* A caller runs Slugify(str) on a string of the tests (tools_test.go:69-77)
\* or on a short string of spaces, tabs, "!", "-", "8", "H", "a", the
\* Cyrillic capital Pe, U+0130 and the Kelvin sign.
SlugifyCall ==
    /\ sl.pc = "idle"
    /\ LET SlugRunes == {32, 9, 33, 45, 56, 72, 97, 1055, 304, 8490}
           Tests ==
               { <<72, 101, 108, 108, 111, 44, 32, 87, 111, 114, 108, 100, 33>>,
                 <<32, 32, 32, 32, 33, 72, 101, 108, 108, 111, 32, 38, 38, 32,
                   87, 111, 114, 108, 100, 33>>,
                 <<1055, 1088, 1080, 1074, 1077, 1090, 44, 32, 1084, 1080, 1088, 33,
                   72, 101, 108, 108, 111, 44, 32, 87, 111, 114, 108, 100, 33>>,
                 <<1055, 1088, 1080, 1074, 1077, 1090, 44, 32, 1084, 1080, 1088, 33>>,
                 <<56, 56, 71, 111, 76, 97, 110, 103, 33, 80, 121, 84, 104, 111, 110,
                   61, 61, 61, 74, 97, 118, 97, 63, 32, 32, 32, 32, 32, 84, 89, 80,
                   69, 83, 67, 82, 73, 80, 84, 64, 32, 32, 32>>,
                 <<32, 32, 32, 32, 32, 32, 32, 32>>,
                 <<33, 33, 33, 33>> }
       IN  \E str \in Tests \cup UNION {[1..n -> SlugRunes] : n \in 0..MaxSlugLen} :
             \E res \in {Slugify(str)} :
               sl' = [pc |-> "done", str |-> str, slug |-> res.slug, err |-> res.err]
    /\ UNCHANGED <<t, uploadVars, rnd, rj, wj, cd>>

SpecSlugify == InitSlugify /\ [][SlugifyCall]_vars

-----------------------------------------------------------------------------
(* Tools.CreateNewDirectory (tools.go:54-70) on a file system of its own:  *)
(* a function from the paths that exist, each the sequence of its          *)
(* elements below the working directory <<>>, to what is there, a          *)
(* directory or a regular file with its permission bits.  The caller owns  *)
(* every entry and is not the superuser.                                   *)

\* The largest number of calls of CreateNewDirectory in a row.
MaxCalls == 2

\* os.Stat(path): nil if every element resolves, else the errno of the
\* first element that does not: ENOTDIR below a regular file, EACCES below
\* a directory the caller may not search, ENOENT if the entry is missing.
Stat(fs, path) ==
    LET at(k) == SubSeq(path, 1, k)
        errno(k) ==
            IF at(k - 1) \notin DOMAIN fs THEN "ENOENT"
            ELSE IF ~fs[at(k - 1)].dir THEN "ENOTDIR"
            ELSE IF "ux" \notin fs[at(k - 1)].perm THEN "EACCES"
            ELSE IF at(k) \notin DOMAIN fs THEN "ENOENT"
            ELSE "nil"
        bad == {k \in 1..Len(path) : errno(k) # "nil"}
    IN  IF bad = {} THEN Nil
        ELSE [type |-> "*fs.PathError", op |-> "stat",
              err |-> errno(CHOOSE k \in bad : \A j \in bad : k <= j)]

\* os.MkdirAll(path, perm) under the process's umask: nothing to do if
\* path is a directory, ENOTDIR if it is something else; otherwise the
\* parent is made first and then path itself with mkdir, which needs a
\* parent that the caller may search and write and gives the new directory
\* the bits of perm that umask does not clear.
RECURSIVE MkdirAll(_, _, _, _)
MkdirAll(fs, path, perm, umask) ==
    LET PathError(errno) == [type |-> "*fs.PathError", op |-> "mkdir", err |-> errno]
        parent == SubSeq(path, 1, Len(path) - 1)
        Mkdir(f) ==
            IF Stat(f, parent) # Nil THEN [fs |-> f, err |-> PathError(Stat(f, parent).err)]
            ELSE IF ~f[parent].dir THEN [fs |-> f, err |-> PathError("ENOTDIR")]
            ELSE IF path \in DOMAIN f THEN [fs |-> f, err |-> PathError("EEXIST")]
            ELSE IF ~({"uw", "ux"} \subseteq f[parent].perm) THEN [fs |-> f, err |-> PathError("EACCES")]
            ELSE [fs |-> (path :> [dir |-> TRUE, perm |-> perm \ umask]) @@ f, err |-> Nil]
    IN  IF Stat(fs, path) = Nil
        THEN IF fs[path].dir THEN [fs |-> fs, err |-> Nil]
             ELSE [fs |-> fs, err |-> PathError("ENOTDIR")]
        ELSE IF Len(path) > 1
        THEN Bind(MkdirAll(fs, parent, perm, umask), LAMBDA made :
               IF made.err # Nil THEN made ELSE Mkdir(made.fs))
        ELSE Mkdir(fs)

\* CreateNewDirectory(path): the file system it leaves and the error it
\* returns. Line 60 is mode 0755; line 62 calls MkdirAll only if
\* os.IsNotExist holds of Stat's error, which it does of ENOENT alone.
CreateNewDirectory(fs, umask, path) ==
    LET mode == {"ur", "uw", "ux", "gr", "gx", "or", "ox"}
        IsNotExist(e) == e # Nil /\ e.err = "ENOENT"
    IN  IF IsNotExist(Stat(fs, path))
        THEN Bind(MkdirAll(fs, path, mode, umask), LAMBDA made :
               IF made.err # Nil THEN made ELSE [fs |-> made.fs, err |-> Nil])
        ELSE [fs |-> fs, err |-> Nil]

\* Before any call: the working directory holds nothing, or "a" as a
\* directory (empty, or with a directory or a regular file "b" in it; open,
\* read-only or not searchable) or "a" as a regular file; the umask is 022
\* or 077.
InitCreateNewDirectory ==
    /\ t = ZeroTools
    /\ NoUploads
    /\ rnd = NoHelper
    /\ rj = NoHelper
    /\ wj = NoHelper
    /\ sl = NoHelper
    /\ LET Directory(perm) == [dir |-> TRUE, perm |-> perm]
           File == [dir |-> FALSE, perm |-> {"ur", "uw", "gr", "or"}]
           rwx == {"ur", "uw", "ux", "gr", "gx", "or", "ox"}
           cwd == <<>> :> Directory(rwx)
           a == <<"a">>
           ab == <<"a", "b">>
       IN  \E fs \in { cwd,
                       cwd @@ (a :> Directory(rwx)),
                       cwd @@ (a :> Directory({"ur", "uw", "ux"})),
                       cwd @@ (a :> Directory(rwx)) @@ (ab :> Directory(rwx)),
                       cwd @@ (a :> Directory(rwx)) @@ (ab :> File),
                       cwd @@ (a :> Directory({"ur", "ux", "gr", "gx", "or", "ox"})),
                       cwd @@ (a :> Directory({"ur", "uw", "gr", "or"})),
                       cwd @@ (a :> File) },
              umask \in { {"gw", "ow"}, {"gr", "gw", "gx", "or", "ow", "ox"} } :
             cd = [fs |-> fs, umask |-> umask, calls |-> <<>>]

\* A caller runs CreateNewDirectory(path) on "a", "a/b" or "b/a".
CreateNewDirectoryCall ==
    /\ cd # NoHelper
    /\ Len(cd.calls) < MaxCalls
    /\ \E path \in {<<"a">>, <<"a", "b">>, <<"b", "a">>} :
         \E res \in {CreateNewDirectory(cd.fs, cd.umask, path)} :
           cd' = [cd EXCEPT !.fs = res.fs,
                            !.calls = Append(@, [path |-> path, before |-> cd.fs,
                                                 after |-> res.fs, err |-> res.err])]
    /\ UNCHANGED <<t, uploadVars, rnd, rj, wj, sl>>

SpecCreateNewDirectory == InitCreateNewDirectory /\ [][CreateNewDirectoryCall]_vars

-----------------------------------------------------------------------------
(* Properties.                                                             *)

\* UploadFiles has returned to its caller.
Returned(h) == pc[h] \in {"returned", "done", "panic"}

\* The number of file parts of handler h's request.
NumParts(h) == TotalParts(call[h].r.File, DOMAIN call[h].r.File)

\* The record UploadFiles builds for a part that it processes in full.
RecordMatches(f, hdr) ==
    /\ f.OriginalFileName = hdr.Filename
    /\ f.FileSize = Len(hdr.content)

\* C1: when the k-th file part fails after k-1 parts were processed,
\* UploadFiles returns a non-nil error together with exactly the k-1
\* UploadedFile records of the parts processed so far.
C1_PartialResultOnFailure ==
    \A h \in Handlers :
        (pc[h] = "returned" /\ Len(log[h]) >= 1 /\ log[h][Len(log[h])].err # NoError)
        => /\ err[h] # NoError
           /\ Len(uploadedFiles[h]) = Len(log[h]) - 1
           /\ \A i \in 1..Len(uploadedFiles[h]) :
                  RecordMatches(uploadedFiles[h][i], Header(h, i))

\* C2: UploadFiles stops at the first failing file part: a failed part is the
\* last part the loop ran on and the loop is left at once, every file on
\* disk was created for a part the loop ran on, and the files written for
\* the earlier parts are still on disk.
C2_StopsAtFirstFailure ==
    /\ \A h \in Handlers : \A i \in 1..Len(log[h]) :
           /\ log[h][i].err # NoError => (i = Len(log[h]) /\ Returned(h))
           /\ log[h][i].err = NoError => log[h][i].path \in DOMAIN disk
    /\ \A p \in DOMAIN disk :
           \E h \in Handlers : \E i \in 1..Len(log[h]) : log[h][i].path = p

\* A first part failed while a second part of the request was never visited.
C2_Witness ==
    \E h \in Handlers :
        /\ pc[h] = "returned"
        /\ Len(order[h]) = 2
        /\ Len(log[h]) = 1
        /\ log[h][1].err # NoError

\* C3: every handle UploadFiles opens for a file part (the input stream and
\* the destination file) is closed when the processing of that part ends, on
\* every exit path; none is open after UploadFiles returns.
C3_HandlesClosed == openFiles = {}

\* C4: no call writes a field of the shared Tools value, so a handler is
\* never about to write t.MaxFileSize while another handler is about to read
\* or write it.
C4_NoConflictingConfigAccess ==
    \A a, b \in Handlers :
        (a # b /\ pc[a] = "default") => pc[b] \notin {"check", "default", "parse"}

\* C5: UploadOneFile never faults; it returns a file and a nil error, or no
\* file and a non-nil error, and with no file part in the form it returns an
\* error.
C5_OneFileReturnsError ==
    \A h \in Handlers :
        /\ pc[h] # "panic"
        /\ pc[h] = "done" =>
              /\ (ret[h].file # <<>>) <=> (ret[h].err = NoError)
              /\ NumParts(h) = 0 => ret[h].err # NoError

\* Lower-casing of a byte string.
Lower(str) ==
    [k \in 1..Len(str) |-> IF str[k] \in 65..90 THEN str[k] + 32 ELSE str[k]]

\* C6: a file part whose content was sniffed is rejected with "the uploaded
\* file type is not permitted" exactly when AllowedFileTypes is non-empty and
\* none of its entries equals the sniffed type up to letter case.
C6_AllowListDecision ==
    \A h \in Handlers : \A i \in 1..Len(log[h]) :
        LET e == log[h][i]
            allow == t.AllowedFileTypes
        IN  e.fileType # <<>> =>
                ((e.err = ErrNotPermitted)
                    <=> (/\ allow # <<>>
                         /\ \A j \in 1..Len(allow) : Lower(allow[j]) # Lower(e.fileType)))

\* A part accepted through an entry that differs in letter case, followed by
\* a part rejected by the same list.
C6_Witness ==
    \E h \in Handlers :
        /\ Len(log[h]) = 2
        /\ log[h][1].fileType = CtPng
        /\ CtPng \notin {t.AllowedFileTypes[j] : j \in 1..Len(t.AllowedFileTypes)}
        /\ log[h][1].err = NoError
        /\ log[h][2].err = ErrNotPermitted

\* C7: when the form parses and every file part is processed without error,
\* UploadFiles returns a nil error and one record per file part of the form,
\* whatever the field names, each with the part's name and full byte length,
\* and the file written last holds the whole content of its part.
C7_FullSuccess ==
    \A h \in Handlers :
        (/\ pc[h] = "returned"
         /\ ParseMultipartForm(call[h].r, t.MaxFileSize) = NoError
         /\ \A i \in 1..Len(log[h]) : log[h][i].err = NoError)
        => /\ err[h] = NoError
           /\ Len(uploadedFiles[h]) = NumParts(h)
           /\ \A i \in 1..Len(uploadedFiles[h]) :
                  RecordMatches(uploadedFiles[h][i], Header(h, i))
           /\ Len(log[h]) > 0 =>
                  disk[log[h][Len(log[h])].path] = Header(h, Len(log[h])).content

\* Two parts under two field names, one longer than the sniffing buffer, all
\* uploaded.
C7_Witness ==
    \E h \in Handlers :
        /\ pc[h] = "returned"
        /\ err[h] = NoError
        /\ Len(uploadedFiles[h]) = 2
        /\ order[h][1][1] # order[h][2][1]
        /\ \E i \in 1..2 : uploadedFiles[h][i].FileSize > BuffLen

\* ext is the extension of name: empty if name has no dot, else the suffix of
\* name from its last dot.
IsExtOf(ext, name) ==
    \/ /\ \A j \in 1..Len(name) : name[j] # Dot
       /\ ext = <<>>
    \/ \E j \in 1..Len(name) :
           /\ name[j] = Dot
           /\ \A k \in (j + 1)..Len(name) : name[k] # Dot
           /\ ext = Suffix(name, j)

C9_SizeCap ==
    \A h \in Handlers :
        (/\ pc[h] \in {"range", "returned", "done", "panic"}
         /\ \E f \in DOMAIN call[h].r.File : \E i \in 1..Len(call[h].r.File[f]) :
                Len(call[h].r.File[f][i].content) > t.MaxFileSize)
        => /\ err[h] = ErrTooBig
           /\ uploadedFiles[h] = <<>>
           /\ log[h] = <<>>

\* C10: for a file part of any length L the sniffing read returns min(512, L)
\* bytes and does not fail, and with an empty allow-list and no I/O fault the
\* part is written and recorded with FileSize = L.
C10_AnyLength ==
    \A h \in Handlers : \A i \in 1..Len(log[h]) :
        LET e == log[h][i]
            L == Len(Header(h, i).content)
        IN  e.fault = "none" =>
                /\ e.n = Min(BuffLen, L)
                /\ e.err # ErrEOF
                /\ t.AllowedFileTypes = <<>> => (e.err = NoError /\ e.size = L)

\* C11: the content type checked against the allow-list is the one content
\* sniffing gives for exactly the first min(512, L) bytes of a file part of
\* length L; the unfilled tail of the 512-byte buffer is no part of the
\* sniffed input.
C11_SniffsOnlyReadBytes ==
    \A h \in Handlers : \A i \in 1..Len(log[h]) :
        LET e == log[h][i]
            content == Header(h, i).content
        IN  e.fileType # <<>> =>
                e.fileType = DetectContentType(SubSeq(content, 1, Min(BuffLen, Len(content))))

\* The characters of the alphabet.
Alphabet == {randomStrSource[j] : j \in 1..Len(randomStrSource)}

\* C12: for every n >= 0, RandomString(n) returns exactly n characters, each
\* a member of randomStrSource; RandomString(0) returns the empty string.
C12_LengthAndAlphabet ==
    rnd.pc = "done" =>
        /\ Len(rnd.str) = rnd.n
        /\ \A i \in 1..Len(rnd.str) : rnd.str[i] \in Alphabet
        /\ rnd.n = 0 => rnd.str = <<>>

\* RandomString(2) returned two different characters.
C12_Witness ==
    /\ rnd.pc = "done"
    /\ rnd.n = 2
    /\ rnd.str[1] # rnd.str[2]

\* C13: at every position of RandomString's output every character of the
\* alphabet can be selected: for every index j there is a prime whose low 64
\* bits modulo the alphabet's length give j.
C13_EveryCharacterPossible ==
    rnd.pc = "done" =>
        \A i \in 1..rnd.n : \A a \in Alphabet :
            \E c \in PrimeResidues(Len(randomStrSource)) :
                RandomString(rnd.n, [rnd.draws EXCEPT ![i] = c])[i] = a

\* The errors of ReadJSON by the names of the taxonomy.
MultipleJSONValues == New("body must contain only one JSON value")
PayloadTooLarge(limit) == Errorf("body must not be larger %d bytes", <<limit>>)
EmptyBody == New("body must not be empty")
MalformedJSON == New("body contains badly-formed JSON")
MalformedJSONAt(offset) ==
    Errorf("body contains badly-formed JSON (at character %d)", <<offset>>)
TypeMismatch(field) ==
    Errorf("body contains incorrect JSON type for field %q", <<field>>)
TypeMismatchAt(offset) ==
    Errorf("body contains incorrect JSON type (at character %d)", <<offset>>)
UnknownField(key) ==
    Errorf("body contains unknown key %s", <<(<<32, 34>> \o key) \o <<34>>>>)

\* ReadJSON has returned, the body having been read to its end.
ReadAll == rj.pc = "done" /\ rj.end = ErrorEOF

\* The same for a target that is a pointer to the struct.
ReadDone == ReadAll /\ rj.data.pointer

\* The effective limit of the call.
Limit == IF t.MaxJSONSize = 0 THEN 1048576 ELSE t.MaxJSONSize

\* Complete JSON objects that decode into the target without error.
GoodValues ==
    {Body.FooBar, Body.FooCaps, Body.FooNull}
    \cup (IF t.AllowUnknownFields THEN {Body.HelloWorld, Body.FooThenUnknown} ELSE {})

\* C14: once a first value has decoded, ReadJSON returns nil when nothing
\* follows it (or only white space up to the end of the body) and "body must
\* contain only one JSON value" when anything else follows it, a second
\* value included.
C14_OneValueOnly ==
    ReadDone =>
        \A v \in GoodValues :
            (/\ Len(v) <= Len(rj.body)
             /\ SubSeq(rj.body, 1, Len(v)) = v
             /\ Len(v) <= Limit)
            => LET rest == Suffix(rj.body, Len(v) + 1)
                   blank == \A i \in 1..Len(rest) : rest[i] \in {32, 9, 13, 10}
               IN  /\ rest = <<>> => rj.err = Nil
                   /\ (blank /\ Len(rj.body) <= Limit) => rj.err = Nil
                   /\ ~blank => rj.err = MultipleJSONValues

\* A body of two objects was refused, the first being stored.
C14_Witness ==
    /\ ReadDone
    /\ rj.body = Body.TwoValues
    /\ rj.err = MultipleJSONValues
    /\ rj.vals = <<<<98, 97, 114>>>>

\* C15: ReadJSON fails with "body must not be larger <limit> bytes", the
\* limit being MaxJSONSize or 1 MiB when that is 0, for every body longer
\* than the limit and for no body within it.
C15_SizeLimit ==
    ReadDone =>
        ((Len(rj.body) > Limit) <=> (rj.err = PayloadTooLarge(Limit)))

\* The bodies with a syntax error and the offset of the offending byte; the
\* bodies with a value of the wrong type for field foo; the bodies whose
\* top-level value is no object and the offset reported for it.
SyntaxCases == {<<Body.HelloText, 1>>, <<Body.FooMissing, 8>>, <<Body.FooUnquoted, 2>>}
FieldTypeCases == {Body.FooNumber, Body.FooArray, Body.FooTrue, Body.TypeThenUnknown}
TopTypeCases == {<<Body.One, 1>>, <<Body.SpaceTwelve, 3>>, <<Body.StringX, 3>>, <<Body.ArrayOne, 1>>,
                 <<Body.TrueValue, 4>>}

\* C16: a failed decode is reported as one error by its cause: the empty
\* body as "body must not be empty", a syntax error as badly-formed JSON
\* with the offset, a truncated body as badly-formed JSON without offset, a
\* type mismatch by the field's name, or by the offset when there is no
\* field, and any other fault with the underlying error in the message.
C16_Classification ==
    /\ (rj.pc = "done" /\ rj.end # ErrorEOF /\ Len(rj.body) <= Limit) =>
           \A k \in 0..(Len(Body.FooBar) - 1) :
               rj.body = SubSeq(Body.FooBar, 1, k) => rj.err = rj.end
    /\ (ReadAll /\ Len(rj.body) <= Limit) =>
        /\ rj.body = <<>> => rj.err = EmptyBody
        /\ \A c \in SyntaxCases : rj.body = c[1] => rj.err = MalformedJSONAt(c[2])
        /\ \A b \in {Body.FooBar, Body.HelloWorld, Body.FooNumber, Body.FooThenUnknown} :
               \A k \in 1..(Len(b) - 1) :
                   rj.body = SubSeq(b, 1, k) => rj.err = MalformedJSON
        /\ (rj.data.pointer /\ rj.body \in FieldTypeCases) =>
               rj.err = TypeMismatch(<<102, 111, 111>>)
        /\ \A c \in TopTypeCases :
               (rj.data.pointer /\ rj.body = c[1]) => rj.err = TypeMismatchAt(c[2])
        /\ (~rj.data.pointer /\ rj.body \in GoodValues) =>
               /\ rj.err.format = "error unmarshalling JSON %s"
               /\ rj.err.args = <<InvalidUnmarshalError>>

\* An object cut before its closing brace was reported as badly-formed JSON
\* without an offset.
C16_Witness ==
    /\ ReadAll
    /\ rj.body = SubSeq(Body.FooBar, 1, Len(Body.FooBar) - 1)
    /\ rj.err = MalformedJSON

\* The bodies whose first fault is a key that names no field of the target,
\* with that key.
UnknownKeyCases ==
    {<<Body.HelloWorld, <<104, 101, 108, 108, 111>>>>,
     <<Body.UnknownThenType, <<104, 101, 108, 108, 111>>>>,
     <<Body.FooThenUnknown, <<120>>>>}

WriteStarted == wj.pc \notin {"off", "idle"}
WriteDone == wj.pc = "done"
Serialized == Marshal(wj.data).err = Nil

\* C18: if serialization of the payload fails, WriteJSON returns the
\* serialization error and the response is as it was before the call: no
\* header added or changed, no status written, no body bytes written.
C18_MarshalFailureWritesNothing ==
    (WriteStarted /\ ~Serialized) =>
        /\ wj.w = wj.w0
        /\ wj.events = <<>>
        /\ WriteDone => wj.err = Marshal(wj.data).err

C18_Witness ==
    /\ WriteDone
    /\ ~Serialized
    /\ wj.err = ErrUnsupportedType
    /\ Len(wj.headers) > 0
    /\ wj.headers[1] # NoHeader
    /\ wj.w0.header # NoHeader

\* The values the response carries under a header key as it is written.
Carried(k) == IF k \in DOMAIN wj.w.sent THEN wj.w.sent[k] ELSE <<>>

\* C19 as stated: after a successful serialization the response carries
\* exactly the supplied values under every header name the caller supplied.
C19_EverySuppliedHeader ==
    (WriteDone /\ Serialized /\ Len(wj.headers) > 0) =>
        \A k \in DOMAIN wj.headers[1] : Carried(k) = wj.headers[1][k]

\* C19: after a successful serialization the response carries, under every
\* key of the first supplied http.Header other than "Content-Type", exactly
\* the values supplied under it, whatever the response had under that key;
\* under "Content-Type" it carries application/json.
C19_SuppliedHeadersButContentType ==
    (WriteDone /\ Serialized /\ Len(wj.headers) > 0) =>
        \A k \in DOMAIN wj.headers[1] :
            Carried(k) = IF k = ContentTypeKey THEN <<"application/json">>
                         ELSE wj.headers[1][k]

C19_Witness ==
    /\ WriteDone
    /\ Serialized
    /\ Len(wj.headers) > 0
    /\ HeaderKey.XTest \in DOMAIN wj.headers[1]
    /\ HeaderKey.XTest \in DOMAIN wj.w0.header
    /\ wj.w0.header[HeaderKey.XTest] # wj.headers[1][HeaderKey.XTest]
    /\ Carried(HeaderKey.XTest) = wj.headers[1][HeaderKey.XTest]

\* The steps of a successful call, in the order of their execution.
StepsInOrder ==
    (IF Len(wj.headers) > 0 THEN <<"headers">> ELSE <<>>)
    \o <<"Content-Type", "WriteHeader", "Write">>

\* C20: a successful WriteJSON applies the caller's headers, then sets
\* Content-Type, then writes the status once, then writes the bytes; the
\* response that was written has Content-Type application/json and the status
\* of the call, whatever the caller's headers hold, the bytes are written
\* after the status only, and no header changes once the status is written.
C20_Ordering ==
    /\ [](WriteStarted =>
            /\ (WriteDone /\ Serialized) => wj.events = StepsInOrder
            /\ wj.w.wroteHeader =>
                 /\ Carried(ContentTypeKey) = <<"application/json">>
                 /\ wj.w.status = wj.status
                 /\ wj.w.sent = wj.w.header
            /\ Len(wj.w.body) > 0 => (wj.w.wroteHeader /\ wj.w.body = wj.out))
    /\ [][(WriteStarted /\ wj.w.wroteHeader) =>
            /\ wj'.w.header = wj.w.header
            /\ wj'.w.sent = wj.w.sent
            /\ wj'.w.status = wj.w.status]_vars

C20_Witness ==
    /\ WriteDone
    /\ Serialized
    /\ wj.err = Nil
    /\ wj.status = 400
    /\ Len(wj.headers) > 0
    /\ ContentTypeKey \in DOMAIN wj.headers[1]
    /\ Len(wj.w.body) > 0

\* The body of a response as a client decodes it: the fields message and
\* data of the JSON object (json's unmarshal, unknown fields allowed).
BodyFields ==
    unmarshal(wj.w.body, 0, Len(wj.w.body),
              [pointer |-> TRUE,
               fields |-> <<[name |-> <<109, 101, 115, 115, 97, 103, 101>>, kind |-> "string"],
                            [name |-> <<100, 97, 116, 97>>, kind |-> "string"]>>],
              FALSE)

\* The body is {"error":true,"message":<one string>} and nothing else.
ErrorBodyShape ==
    /\ Len(wj.w.body) > 26
    /\ SubSeq(wj.w.body, 1, 25) =
         <<123, 34, 101, 114, 114, 111, 114, 34, 58, 116, 114, 117, 101, 44,
           34, 109, 101, 115, 115, 97, 103, 101, 34, 58, 34>>
    /\ StringEnd(wj.w.body, 26) = Len(wj.w.body) - 1
    /\ wj.w.body[Len(wj.w.body)] = 125

\* C21: ErrorJSON writes the first status supplied, 400 if none is, and a
\* body that is a JSON object with error true, message err.Error() and no
\* data; it returns what WriteJSON returned (the error of the write, if any).
C21_ErrorJSON ==
    (wj.pc = "returned") =>
        /\ wj.w.wroteHeader
        /\ wj.w.status = IF Len(wj.errorJSON.status) > 0
                         THEN wj.errorJSON.status[1] ELSE 400
        /\ wj.errorJSON.ret = wj.err
        /\ wj.err \in {Nil, ErrWrite}
        /\ wj.err = Nil =>
             /\ ErrorBodyShape
             /\ BodyFields.err = Nil
             /\ BodyFields.vals = <<wj.errorJSON.err, <<>>>>

C21_Witness ==
    /\ wj.pc = "returned"
    /\ wj.errorJSON.status = <<504, 403>>
    /\ wj.w.status = 504
    /\ wj.errorJSON.err = <<97, 34, 98, 92, 99>>
    /\ wj.errorJSON.ret = Nil
    /\ BodyFields.vals[1] = wj.errorJSON.err

\* An ASCII letter or digit.
AlphaNumeric(c) == c \in 48..57 \/ c \in 65..90 \/ c \in 97..122

\* The maximal runs of ASCII letters and digits of str, in lower case and
\* in their order, with one "-" between a run and the next.
JoinedRuns(str) ==
    LET starts(i) == AlphaNumeric(str[i]) /\ (i = 1 \/ ~AlphaNumeric(str[i - 1]))
        first == CHOOSE i \in 1..Len(str) : AlphaNumeric(str[i]) /\ \A j \in 1..(i - 1) : ~AlphaNumeric(str[j])
        \* Key 2i stands for the code point at i, key 2i - 1 for the "-"
        \* before the run that starts at i.
        keys == {2 * i : i \in {i \in 1..Len(str) : AlphaNumeric(str[i])}}
                \cup {2 * i - 1 : i \in {i \in 1..Len(str) : starts(i) /\ i # first}}
        at(k) == CHOOSE x \in keys : Cardinality({y \in keys : y <= x}) = k
    IN  [k \in 1..Cardinality(keys) |->
            IF at(k) % 2 = 1 THEN 45
            ELSE IF str[at(k) \div 2] \in 65..90 THEN str[at(k) \div 2] + 32
            ELSE str[at(k) \div 2]]

\* C22: whenever Slugify returns no error, the slug is not empty, holds only
\* a-z, 0-9 and "-", neither starts nor ends with "-", has no two "-" in a
\* row, and is the input's maximal runs of ASCII letters and digits in lower
\* case, joined by single hyphens in their order.
C22_SlugOfASCIIRuns ==
    (sl.pc = "done" /\ sl.err = Nil) =>
        /\ Len(sl.slug) > 0
        /\ \A i \in 1..Len(sl.slug) :
             sl.slug[i] \in (97..122) \cup (48..57) \cup {45}
        /\ sl.slug[1] # 45
        /\ sl.slug[Len(sl.slug)] # 45
        /\ \A i \in 1..(Len(sl.slug) - 1) : ~(sl.slug[i] = 45 /\ sl.slug[i + 1] = 45)
        /\ sl.slug = JoinedRuns(sl.str)

\* C23: Slugify fails exactly if its input holds no ASCII letter or digit;
\* when it fails it returns the empty string and an error, and on an input
\* of spaces only the error is "empty string not permitted".
C23_FailsIffNoASCIIAlphaNumeric ==
    sl.pc = "done" =>
        /\ (sl.err # Nil) <=> (\A i \in 1..Len(sl.str) : ~AlphaNumeric(sl.str[i]))
        /\ sl.err # Nil => sl.slug = <<>>
        /\ (\A i \in 1..Len(sl.str) : sl.str[i] = 32) =>
               sl.err = New("empty string not permitted")

\* Slugify's argument holds neither U+0130 nor the Kelvin sign.
NoFoldToASCII == sl.pc = "done" => \A i \in 1..Len(sl.str) : sl.str[i] \notin {304, 8490}

\* On such arguments the slug is as the runs of ASCII letters and digits
\* give it.
SlugOfASCIIRunsWithoutFold == NoFoldToASCII => C22_SlugOfASCIIRuns

\* On such arguments Slugify fails exactly if there is no ASCII letter or
\* digit.
FailsIffWithoutFold == NoFoldToASCII => C23_FailsIffNoASCIIAlphaNumeric

\* There is a directory at path in fs.
IsDirectory(fs, path) == path \in DOMAIN fs /\ fs[path].dir

\* A path that does not exist and that CreateNewDirectory returns nil for
\* is a directory afterwards, and every directory the call made has mode
\* 0755.
CreatesWithMode0755 ==
    \A i \in 1..Len(cd.calls) :
        LET c == cd.calls[i]
        IN  (c.path \notin DOMAIN c.before /\ c.err = Nil) =>
                /\ IsDirectory(c.after, c.path)
                /\ \A p \in DOMAIN c.after \ DOMAIN c.before :
                     /\ c.after[p].dir
                     /\ c.after[p].perm = {"ur", "uw", "ux", "gr", "gx", "or", "ox"}

\* On a directory that exists CreateNewDirectory changes nothing and
\* returns nil.
NoOpOnDirectory ==
    \A i \in 1..Len(cd.calls) :
        LET c == cd.calls[i]
        IN  IsDirectory(c.before, c.path) => c.after = c.before /\ c.err = Nil

\* Of two calls in a row on one path the second returns nil if the first
\* did, and changes nothing.
TwiceInARow ==
    \A i \in 1..(Len(cd.calls) - 1) :
        (cd.calls[i].path = cd.calls[i + 1].path /\ cd.calls[i].err = Nil) =>
            /\ cd.calls[i + 1].err = Nil
            /\ cd.calls[i + 1].after = cd.calls[i + 1].before

\* Whenever CreateNewDirectory returns nil there is a directory at the
\* path afterwards.
NilMeansDirectory ==
    \A i \in 1..Len(cd.calls) :
        cd.calls[i].err = Nil => IsDirectory(cd.calls[i].after, cd.calls[i].path)

\* C24: CreateNewDirectory is idempotent and establishes its postcondition:
\* a path that does not exist is created with its parents with mode 0755, a
\* directory that exists is left as it is with nil returned, two calls in a
\* row both return nil, and after every nil return there is a directory at
\* the path.
C24_IdempotentAndEstablishes ==
    cd # NoHelper =>
        CreatesWithMode0755 /\ NoOpOnDirectory /\ TwiceInARow /\ NilMeansDirectory

\* fileType is one of the configured AllowedFileTypes under case folding,
\* or none is configured.
Permitted(fileType) ==
    \/ Len(t.AllowedFileTypes) = 0
    \/ \E i \in 1..Len(t.AllowedFileTypes) : EqualFold(fileType, t.AllowedFileTypes[i])

\* The loop body of handler h ends on a file part in this step, with error e.
PartEndsWith(h, e) ==
    /\ Len(log'[h]) = Len(log[h]) + 1
    /\ log'[h][Len(log'[h])].err = e

\* C25: validation precedes persistence in UploadFiles. A destination file
\* is created only for a part whose content type was sniffed and is
\* permitted; the step that rejects a part as not permitted leaves every
\* file of uploadDir as it was, neither creating nor truncating one; and a
\* call whose multipart parsing fails runs the loop body on no part and
\* leaves the files as they were.
C25_ValidationPrecedesPersistence ==
    /\ [](\A h \in Handlers : \A k \in 1..Len(log[h]) :
            log[h][k].path # <<>> =>
                /\ log[h][k].n >= 0
                /\ log[h][k].fileType # <<>>
                /\ Permitted(log[h][k].fileType))
    /\ [][\A h \in Handlers :
            /\ PartEndsWith(h, ErrNotPermitted) =>
                   disk' = disk /\ ~Permitted(log'[h][Len(log'[h])].fileType)
            /\ (pc[h] = "parse" /\ pc'[h] = "returned") =>
                   /\ err'[h] = ErrTooBig
                   /\ uploadedFiles'[h] = <<>>
                   /\ log'[h] = <<>>
                   /\ disk' = disk]_vars
    /\ [](\A h \in Handlers :
            (pc[h] = "returned" /\ err[h] = ErrTooBig) => DOMAIN disk = {})

\* A part named "n" is saved under its own name, and the next part, also
\* named "n", is rejected as not permitted: the file of the first part is
\* still whole.
C25_Witness ==
    /\ Len(log[1]) = 2
    /\ ~call[1].renameFile
    /\ Header(1, 1).Filename = Header(1, 2).Filename
    /\ log[1][1].err = NoError
    /\ log[1][2].err = ErrNotPermitted
    /\ log[1][1].path \in DOMAIN disk
    /\ disk[log[1][1].path] = Header(1, 1).content

\* Every record handler h holds names a file of uploadDir whose size on
\* disk is the record's FileSize.
RecordsOnDisk(h) ==
    \A i \in 1..Len(uploadedFiles[h]) :
        LET f == uploadedFiles[h][i]
            path == Join(call[h].uploadDir, f.NewFileName)
        IN  path \in DOMAIN disk /\ Len(disk[path]) = f.FileSize

\* Handler h holds as many records as its loop body wrote files completely.
RecordPerWrittenFile(h) ==
    Len(uploadedFiles[h]) =
        Cardinality({k \in 1..Len(log[h]) : log[h][k].err = NoError /\ log[h][k].size >= 0})

\* C26: after UploadFiles returns, with or without error, every record of
\* the returned collection names a file that exists in uploadDir with the
\* size on disk that the record gives as FileSize, and there are as many
\* records as files that UploadFiles wrote completely.
C26_ReturnedRecordsAreOnDisk ==
    \A h \in Handlers :
        Returned(h) => RecordsOnDisk(h) /\ RecordPerWrittenFile(h)

=============================================================================
